---------------------------- MODULE Spec2Model ----------------------------
(***************************************************************************)
(* A model of fiskalhrgo: the issuer protection code (ZKI), the fiscal     *)
(* entity and its certificates, XML signing, the CIS transport and the     *)
(* invoice life cycle.                                                     *)
(*                                                                         *)
(* Strings are sequences of one-character strings, so that formatting,     *)
(* parsing and the regular expressions of the validators are computed      *)
(* character by character.                                                 *)
(***************************************************************************)
EXTENDS Integers, Sequences, FiniteSets, TLC

VARIABLES
    entity,     \* the FiskalEntity held by the application (NoEntity before NewFiskalEntity)
    invoice,    \* the *RacunType held by the application (NilInvoice: a nil pointer)
    last,       \* the calls made and what they returned, the most recent last
    saved,      \* the arguments of the calls the application is about to make
    certFS,     \* the embedded certificate directory, in enumeration order
    now,        \* time.Now(), in hours since an arbitrary epoch
    manager,    \* the certManager that decodeP12Cert is called on
    calls       \* the number of steps the application has taken

vars == <<entity, invoice, last, saved, certFS, now, manager, calls>>

\* a value computed once and named in what follows: With(e, LAMBDA x : body)
With(value, Body(_)) == Body(value)

(***************************************************************************)
(* Characters and strings                                                  *)
(***************************************************************************)
Digits == <<"0", "1", "2", "3", "4", "5", "6", "7", "8", "9">>

HexDigits == <<"0", "1", "2", "3", "4", "5", "6", "7", "8", "9", "a", "b", "c", "d", "e", "f">>

\* the characters of the model, in ASCII order
Characters ==
    <<"\n", " ", "\"", "#", "+", ",", "-", ".", "/", "0", "1", "2", "3", "4", "5", "6",
      "7", "8", "9", ":", "<", "=", ">", "A", "B", "C", "D", "E", "F", "G", "H", "I",
      "J", "K", "L", "M", "N", "O", "P", "Q", "R", "S", "T", "U", "V", "W", "X", "Y",
      "Z", "a", "b", "c", "d", "e", "f", "g", "h", "i", "j", "k", "l", "m", "n", "o",
      "p", "q", "r", "s", "t", "u", "v", "w", "x", "y", "z">>

\* XML names and the literal attribute values of the signature block, each written
\* as one unit of text, in ASCII order
XMLChunks ==
    <<"-->", "<!--", "<?xml?>", "Algorithm", "BrOznRac", "BrRac",
      "CanonicalizationMethod", "DatVrijeme", "DatumVrijeme", "DigestMethod",
      "DigestValue", "EchoRequest", "Id", "IdPoruke", "IznosMarza", "IznosNePodlOpor",
      "IznosOslobPdv", "IznosUkupno", "KeyInfo", "NacinPlac", "NakDost", "Oib",
      "OibOper", "OznNapUr", "OznPosPr", "OznSlijed", "Racun", "RacunZahtjev",
      "Reference", "Signature", "SignatureMethod", "SignatureValue", "SignedInfo",
      "Transform", "Transforms", "URI", "USustPdv", "X509Certificate", "X509Data",
      "X509IssuerName", "X509IssuerSerial", "X509SerialNumber", "Zaglavlje", "ZastKod",
      "ds", "http://www.apis-it.hr/fin/2012/types/f73",
      "http://www.w3.org/2000/09/xmldsig#",
      "http://www.w3.org/2000/09/xmldsig#enveloped-signature",
      "http://www.w3.org/2000/09/xmldsig#rsa-sha1",
      "http://www.w3.org/2000/09/xmldsig#sha1",
      "http://www.w3.org/2001/10/xml-exc-c14n#", "tns", "urn:other", "xmlns">>

Alphabet == Characters \o XMLChunks

CharSet == {Alphabet[i] : i \in 1..Len(Alphabet)}

DigitSet == {Digits[i] : i \in 1..Len(Digits)}

HexSet == {HexDigits[i] : i \in 1..Len(HexDigits)}

UpperCase ==
    <<"A", "B", "C", "D", "E", "F", "G", "H", "I", "J", "K", "L", "M", "N", "O", "P",
      "Q", "R", "S", "T", "U", "V", "W", "X", "Y", "Z">>

LowerCase ==
    <<"a", "b", "c", "d", "e", "f", "g", "h", "i", "j", "k", "l", "m", "n", "o", "p",
      "q", "r", "s", "t", "u", "v", "w", "x", "y", "z">>

LetterSet == {UpperCase[i] : i \in 1..26} \cup {LowerCase[i] : i \in 1..26}

IsDigit(c) == c \in DigitSet

\* the numeric value of a decimal digit character
DigitVal(c) == CHOOSE d \in 0..9 : Digits[d + 1] = c

OrdTable == [c \in CharSet |-> CHOOSE i \in 1..Len(Alphabet) : Alphabet[i] = c]

\* a stand-in for the byte value of a character
Ord(c) == OrdTable[c]

RECURSIVE Concat(_)
\* the concatenation of a sequence of strings, half by half
Concat(ss) ==
    IF ss = <<>> THEN <<>>
    ELSE IF Len(ss) = 1 THEN ss[1]
    ELSE Concat(SubSeq(ss, 1, Len(ss) \div 2)) \o Concat(SubSeq(ss, Len(ss) \div 2 + 1, Len(ss)))

RECURSIVE Sum(_)
\* the sum of a sequence of integers, half by half
Sum(vs) ==
    IF vs = <<>> THEN 0
    ELSE IF Len(vs) = 1 THEN vs[1]
    ELSE Sum(SubSeq(vs, 1, Len(vs) \div 2)) + Sum(SubSeq(vs, Len(vs) \div 2 + 1, Len(vs)))

RECURSIVE PrefixSums(_)
\* the sums of the first 1, 2, ... elements of a sequence of integers
PrefixSums(vs) ==
    IF Len(vs) <= 1 THEN vs
    ELSE With(PrefixSums(SubSeq(vs, 1, Len(vs) \div 2)), LAMBDA left :
         With(PrefixSums(SubSeq(vs, Len(vs) \div 2 + 1, Len(vs))), LAMBDA right :
             left \o [i \in 1..Len(right) |-> right[i] + left[Len(left)]]))

RECURSIVE FormatUint(_)
\* strconv.FormatUint(n, 10)
FormatUint(n) ==
    IF n < 10 THEN <<Digits[n + 1]>>
    ELSE FormatUint(n \div 10) \o <<Digits[(n % 10) + 1]>>

\* a number zero-padded to two digits ("02", "01", "15", "04", "05" of a Go layout)
Pad2(n) == <<Digits[((n \div 10) % 10) + 1], Digits[(n % 10) + 1]>>

\* a year zero-padded to four digits ("2006" of a Go layout)
Pad4(n) == Pad2(n \div 100) \o Pad2(n % 100)

AllDigits(s) == \A i \in 1..Len(s) : IsDigit(s[i])

RECURSIVE ParseUint(_)
\* the number a string of decimal digits denotes
ParseUint(s) ==
    IF s = <<>> THEN 0
    ELSE 10 * ParseUint(SubSeq(s, 1, Len(s) - 1)) + DigitVal(s[Len(s)])

(***************************************************************************)
(* time.Time: a wall-clock reading in the value's own location plus the    *)
(* sub-second part.  Layout formatting prints the reading in that          *)
(* location; parsing a layout without zone yields a UTC time with a zero   *)
(* sub-second part.                                                        *)
(***************************************************************************)
Time(y, mo, d, h, mi, s, ns, loc) ==
    [year |-> y, month |-> mo, day |-> d, hour |-> h, min |-> mi, sec |-> s,
     nsec |-> ns, loc |-> loc]

\* time.Time.Format with layout "02.01.2006" sep "15:04:05"
FormatTime(t, sep) ==
    Concat(<<Pad2(t.day), <<".">>, Pad2(t.month), <<".">>, Pad4(t.year), sep,
             Pad2(t.hour), <<":">>, Pad2(t.min), <<":">>, Pad2(t.sec)>>)

IsLeap(y) == (y % 4 = 0 /\ y % 100 # 0) \/ y % 400 = 0

DaysIn(mo, y) ==
    IF mo = 2 THEN (IF IsLeap(y) THEN 29 ELSE 28)
    ELSE IF mo \in {4, 6, 9, 11} THEN 30 ELSE 31

\* time.Parse with the layout "01.02.2006T15:04:05", the month before the day
ParseTimeMonthFirst(s) ==
    LET shape == /\ Len(s) = 19
                 /\ s[3] = "." /\ s[6] = "." /\ s[11] = "T" /\ s[14] = ":" /\ s[17] = ":"
                 /\ \A i \in {1, 2, 4, 5, 7, 8, 9, 10, 12, 13, 15, 16, 18, 19} : IsDigit(s[i])
        mo == ParseUint(SubSeq(s, 1, 2))
        d  == ParseUint(SubSeq(s, 4, 5))
        y  == ParseUint(SubSeq(s, 7, 10))
        h  == ParseUint(SubSeq(s, 12, 13))
        mi == ParseUint(SubSeq(s, 15, 16))
        sc == ParseUint(SubSeq(s, 18, 19))
    IN  IF shape /\ mo \in 1..12 /\ d \in 1..DaysIn(mo, y) /\ h < 24 /\ mi < 60 /\ sc < 60
        THEN [ok |-> TRUE, t |-> Time(y, mo, d, h, mi, sc, 0, "UTC")]
        ELSE [ok |-> FALSE, t |-> Time(1, 1, 1, 0, 0, 0, 0, "UTC")]

\* time.Parse("02.01.2006T15:04:05", s): [ok, t]
ParseTime(s) ==
    LET shape == /\ Len(s) = 19
                 /\ s[3] = "." /\ s[6] = "." /\ s[11] = "T" /\ s[14] = ":" /\ s[17] = ":"
                 /\ \A i \in {1, 2, 4, 5, 7, 8, 9, 10, 12, 13, 15, 16, 18, 19} : IsDigit(s[i])
        d  == ParseUint(SubSeq(s, 1, 2))
        mo == ParseUint(SubSeq(s, 4, 5))
        y  == ParseUint(SubSeq(s, 7, 10))
        h  == ParseUint(SubSeq(s, 12, 13))
        mi == ParseUint(SubSeq(s, 15, 16))
        sc == ParseUint(SubSeq(s, 18, 19))
    IN  IF shape /\ mo \in 1..12 /\ d \in 1..DaysIn(mo, y) /\ h < 24 /\ mi < 60 /\ sc < 60
        THEN [ok |-> TRUE, t |-> Time(y, mo, d, h, mi, sc, 0, "UTC")]
        ELSE [ok |-> FALSE, t |-> Time(1, 1, 1, 0, 0, 0, 0, "UTC")]

(***************************************************************************)
(* basicvalidators.go                                                      *)
(***************************************************************************)
\* the pattern without the end anchor: ^\d+(\.\d{2})
IsValidCurrencyFormatUnanchored(amount) ==
    \E n \in 1..Len(amount) :
       /\ \A i \in 1..n : IsDigit(amount[i])
       /\ Len(amount) >= n + 3
       /\ amount[n + 1] = "."
       /\ IsDigit(amount[n + 2])
       /\ IsDigit(amount[n + 3])

\* ^\d+(\.\d{2})$
IsValidCurrencyFormat(amount) ==
    /\ Len(amount) >= 4
    /\ amount[Len(amount) - 2] = "."
    /\ IsDigit(amount[Len(amount) - 1])
    /\ IsDigit(amount[Len(amount)])
    /\ \A i \in 1..(Len(amount) - 3) : IsDigit(amount[i])

\* a ValidateOIB that asks for eleven digits and compares no check digit
ValidateOIBDigitsOnly(oib) ==
    /\ Len(oib) = 11
    /\ \A i \in 1..11 : IsDigit(oib[i])

RECURSIVE OIBRemainder(_, _, _)
\* the loop of ValidateOIB over the first ten characters: -1 when one is not a digit
OIBRemainder(oib, i, remainder) ==
    IF i > 10 THEN remainder
    ELSE IF ~IsDigit(oib[i]) THEN -1
    ELSE LET r1 == (remainder + DigitVal(oib[i])) % 10
             r2 == IF r1 = 0 THEN 10 ELSE r1
         IN  OIBRemainder(oib, i + 1, (r2 * 2) % 11)

ValidateOIB(oib) ==
    /\ Len(oib) = 11
    /\ LET remainder == OIBRemainder(oib, 1, 10)
       IN  /\ remainder # -1
           /\ IsDigit(oib[11])
           /\ (11 - remainder) % 10 = DigitVal(oib[11])

\* ^[a-zA-Z0-9]{1,20}$
ValidateLocationID(locationID) ==
    /\ Len(locationID) \in 1..20
    /\ \A i \in 1..Len(locationID) : locationID[i] \in DigitSet \cup LetterSet

\* ^[0-9a-f]{8}-[0-9a-f]{4}-[0-9a-f]{4}-[0-9a-f]{4}-[0-9a-f]{12}$
ValidateJIR(jir) ==
    /\ Len(jir) = 36
    /\ \A i \in 1..36 : IF i \in {9, 14, 19, 24} THEN jir[i] = "-" ELSE jir[i] \in HexSet

\* ^[0-9a-f]{32}$
ValidateZKI(zki) ==
    /\ Len(zki) = 32
    /\ \A i \in 1..32 : zki[i] \in HexSet


(***************************************************************************)
(* Errors are compared by their message; Nil is the nil error.             *)
(***************************************************************************)
Nil == "nil"

(***************************************************************************)
(* crypto/sha1, crypto/rsa and crypto/md5 of the Go standard library.      *)
(* A digest is a sequence of bytes of the algorithm's size, computed by a  *)
(* small mixing function; an RSA key acts on a digest as a per-key         *)
(* bijection on byte values.                                               *)
(***************************************************************************)
\* the contribution of vs[i], vs[i + n], ... to one lane of a digest of n bytes
LaneSum(vs, i, len, n) ==
    Sum([k \in 1..(IF i > len THEN 0 ELSE (len - i) \div n + 1) |->
            (2 * (k - 1) + 1) * vs[i + (k - 1) * n] + i + (k - 1) * n])

\* a digest of n bytes of the byte sequence vs
Mix(vs, n) == LET len == Len(vs) IN [lane \in 1..n |-> LaneSum(vs, lane, len, n) % 256]

\* sha1.Sum: 20 bytes
sha1Sum(data) == Mix([i \in 1..Len(data) |-> Ord(data[i])], 20)

\* md5.Sum: 16 bytes
md5Sum(bytes) == Mix(bytes, 16)

\* the private exponent's action on one byte of the padded digest
KeyMul(key) == 2 * key.n + 1

KeyAdd(key) == 17 * key.n

\* a signature scheme that salts the padding with the random source (as RSA-PSS does)
SignSalted(random, key, hashed) ==
    [i \in 1..Len(hashed) |-> (hashed[i] * KeyMul(key) + KeyAdd(key) + random) % 256]

\* rsa.SignPKCS1v15(random, key, crypto.SHA1, hashed): the padding is fixed, and the
\* random source only blinds the private-key operation, so it does not reach the result
SignPKCS1v15(random, key, hashed) ==
    [i \in 1..Len(hashed) |-> (hashed[i] * KeyMul(key) + KeyAdd(key)) % 256]

\* fmt.Sprintf("%x", bytes): two lowercase hexadecimal digits per byte
HexEncode(bytes) ==
    [i \in 1..(2 * Len(bytes)) |->
        IF i % 2 = 1 THEN HexDigits[(bytes[(i + 1) \div 2] \div 16) + 1]
        ELSE HexDigits[(bytes[i \div 2] % 16) + 1]]

(***************************************************************************)
(* ciscert.go: the embedded CIS certificate bundles                        *)
(***************************************************************************)
\* an x509 certificate of a CIS bundle
CISCertificate(id, issuer, serial, notBefore, notAfter, rsa) ==
    [id |-> id, issuer |-> issuer, serial |-> serial,
     notBefore |-> notBefore, notAfter |-> notAfter, rsa |-> rsa]

PEMCert(c) == [type |-> "CERTIFICATE", parses |-> TRUE, cert |-> c]

InValidity(c, t) == ~(t < c.notBefore) /\ ~(t > c.notAfter)

\* x509.Certificate.Verify with Roots = {the last certificate}, Intermediates = the
\* middle ones: a chain of currently valid certificates from the leaf to the root
VerifyChain(certs, t) ==
    LET leaf  == certs[1]
        root  == certs[Len(certs)]
        mids  == {certs[i] : i \in 2..(Len(certs) - 1)}
    IN  /\ InValidity(leaf, t)
        /\ InValidity(root, t)
        /\ \/ leaf = root
           \/ leaf.issuer = root.id
           \/ \E m \in mids : leaf.issuer = m.id /\ m.issuer = root.id /\ InValidity(m, t)

NoCert == [id |-> "none"]

NoPool == [pool |-> "nil"]

\* the certificates of one file: [err, certs]
ParsePEM(blocks) ==
    LET bad == {i \in 1..Len(blocks) : blocks[i].type # "CERTIFICATE" \/ ~blocks[i].parses}
        first == CHOOSE i \in bad : \A j \in bad : i <= j
    IN  IF bad = {} THEN [err |-> Nil, certs |-> [i \in 1..Len(blocks) |-> blocks[i].cert]]
        ELSE IF blocks[first].type # "CERTIFICATE"
             THEN [err |-> "invalid PEM block type", certs |-> <<>>]
             ELSE [err |-> "failed to parse certificate", certs |-> <<>>]

\* a loop body that keeps the last verified leaf, whatever its NotBefore
ScanCertFileLastVerified(st, f, t) ==
    IF st.outcome # "running" THEN st
    ELSE IF f.isDir \/ ~f.matches THEN st
    ELSE LET p == ParsePEM(f.blocks)
         IN  IF p.err # Nil THEN [st EXCEPT !.outcome = "error", !.err = p.err]
             ELSE IF p.certs = <<>> THEN [st EXCEPT !.outcome = "panic", !.err = "index out of range"]
             ELSE IF ~VerifyChain(p.certs, t) THEN st
             ELSE [st EXCEPT !.newestCert = p.certs[1]]

\* the loop body of parseAndVerifyEmbeddedCerts for one directory entry, on the
\* loop state st = [outcome, err, newestCert, roots]
ScanCertFile(st, f, t) ==
    IF st.outcome # "running" THEN st
    ELSE IF f.isDir \/ ~f.matches THEN st
    ELSE LET p == ParsePEM(f.blocks)
         IN  IF p.err # Nil THEN [st EXCEPT !.outcome = "error", !.err = p.err]
             ELSE IF p.certs = <<>> THEN [st EXCEPT !.outcome = "panic", !.err = "index out of range"]
             ELSE LET leaf == p.certs[1]
                      st1  == [st EXCEPT !.roots = [pool |-> p.certs[Len(p.certs)].id]]
                  IN  IF ~VerifyChain(p.certs, t) THEN st1
                      ELSE IF t < leaf.notBefore \/ t > leaf.notAfter THEN st1
                      ELSE IF st.newestCert = NoCert \/ leaf.notBefore > st.newestCert.notBefore
                           THEN [st1 EXCEPT !.newestCert = leaf]
                           ELSE st1

RECURSIVE ScanCertFiles(_, _, _)
ScanCertFiles(st, files, t) ==
    IF files = <<>> THEN st
    ELSE ScanCertFiles(ScanCertFile(st, Head(files), t), Tail(files), t)

NoCIScert == [nilCIScert |-> TRUE]

\* parseAndVerifyEmbeddedCerts(certFS, dir, pattern) at time t:
\* [outcome ("ok", "error" or "panic"), err, cert]
parseAndVerifyEmbeddedCerts(files, t) ==
    With(ScanCertFiles([outcome |-> "running", err |-> Nil, newestCert |-> NoCert,
                        roots |-> NoPool], files, t), LAMBDA st :
        IF st.outcome # "running" THEN [outcome |-> st.outcome, err |-> st.err, cert |-> NoCIScert]
        ELSE IF st.newestCert = NoCert
             THEN [outcome |-> "error", err |-> "no suitable certificate found", cert |-> NoCIScert]
        ELSE IF ~st.newestCert.rsa
             THEN [outcome |-> "error", err |-> "public key is not of type RSA", cert |-> NoCIScert]
        ELSE [outcome |-> "ok", err |-> Nil,
              cert |-> [PublicKey     |-> st.newestCert.id,
                        Subject       |-> st.newestCert.id,
                        Serial        |-> st.newestCert.serial,
                        Issuer        |-> st.newestCert.issuer,
                        ValidFrom     |-> st.newestCert.notBefore,
                        ValidUntil    |-> st.newestCert.notAfter,
                        SSLverifyPoll |-> st.roots]])

\* the files embedded from certDemo/democis*.pem and certProd/fiskalcis*.pem: each a
\* chain leaf, intermediate, root
CISBundle(name, serial, notBefore, notAfter) ==
    [isDir |-> FALSE, matches |-> TRUE,
     blocks |-> <<PEMCert(CISCertificate(name, "CA-" \o name, serial, notBefore, notAfter, TRUE)),
                  PEMCert(CISCertificate("CA-" \o name, "Root-" \o name, 100 + serial, 0, 1000000, TRUE)),
                  PEMCert(CISCertificate("Root-" \o name, "Root-" \o name, 200 + serial, 0, 1000000, TRUE))>>]

demoCISCert == <<CISBundle("democis1", 1, 0, 1000000)>>

prodCISCert == <<CISBundle("fiskalcis1", 2, 0, 1000000)>>

getDemoPublicKey(t) == parseAndVerifyEmbeddedCerts(demoCISCert, t)

getProductionPublicKey(t) == parseAndVerifyEmbeddedCerts(prodCISCert, t)

(***************************************************************************)
(* cert.go: the certificate manager                                        *)
(***************************************************************************)
NoKey == [nilKey |-> TRUE]

NoP12Cert == [nilCert |-> TRUE]

newCertManager ==
    [privateKey |-> NoKey, publicCert |-> NoP12Cert, caCerts |-> <<>>,
     certORG |-> <<>>, certOIB |-> <<>>, certSERIAL |-> <<>>,
     init_ok |-> FALSE, expired |-> FALSE, expire_soon |-> FALSE, expire_days |-> 0]

\* the first index >= from at which sep occurs in s, 0 when there is none
IndexOf(s, sep, from) ==
    LET hits == {i \in from..(Len(s) - Len(sep) + 1) : SubSeq(s, i, i + Len(sep) - 1) = sep}
    IN  IF hits = {} THEN 0 ELSE CHOOSE i \in hits : \A j \in hits : i <= j

\* strings.Split(s, sep): [n, second] with n = 1 when the result has a single
\* element, 2 when it has at least two, and second = its element [1]
SplitSecond(s, sep) ==
    IF sep = <<>>
    THEN IF Len(s) >= 2 THEN [n |-> 2, second |-> <<s[2]>>] ELSE [n |-> 1, second |-> <<>>]
    ELSE LET first == IndexOf(s, sep, 1)
             start == first + Len(sep)
             next  == IndexOf(s, sep, start)
         IN  IF first = 0 THEN [n |-> 1, second |-> <<>>]
             ELSE [n |-> 2,
                   second |-> SubSeq(s, start, IF next = 0 THEN Len(s) ELSE next - 1)]

\* certManager.getCertOIB: [oib, err]
getCertOIB(cm) ==
    IF cm.publicCert = NoP12Cert THEN [oib |-> <<>>, err |-> "certificate not loaded"]
    ELSE LET organization == cm.publicCert.organization
             country      == cm.publicCert.country
         IN  IF Len(organization) = 0 \/ Len(country) = 0
             THEN [oib |-> <<>>, err |-> "organization or country fields missing in certificate"]
             ELSE LET ex == SplitSecond(organization[1], country[1])
                  IN  IF ex.n < 2
                      THEN [oib |-> <<>>, err |-> "failed to extract OIB from certificate"]
                      ELSE [oib |-> ex.second, err |-> Nil]

\* one iteration of the loop of decodeP12Cert over the PEM blocks
DecodeBlock(st, block) ==
    IF st.err # Nil THEN st
    ELSE IF block.type = "PRIVATE KEY"
    THEN IF block.form = "garbage"
         THEN [st EXCEPT !.err = "failed to parse private key (tried PKCS8 and PKCS1)"]
         ELSE IF block.form = "pkcs8-ec"
         THEN [st EXCEPT !.err = "private key is not of RSA type"]
         ELSE [st EXCEPT !.privateKey = block.key]
    ELSE IF block.type = "CERTIFICATE"
    THEN IF ~block.parses THEN [st EXCEPT !.err = "failed to parse certificate"]
         ELSE IF block.cert.isCA THEN [st EXCEPT !.caCerts = Append(@, block.cert)]
         ELSE [st EXCEPT !.certificate = block.cert]
    ELSE st

RECURSIVE DecodeBlocks(_, _)
DecodeBlocks(st, blocks) ==
    IF blocks = <<>> THEN st ELSE DecodeBlocks(DecodeBlock(st, Head(blocks)), Tail(blocks))

\* uint16(x) of the float64 x = hours / 24: the fraction is discarded; a value outside
\* 0..65535 converts to an implementation-dependent value, ub
Uint16OfDays(hours, ub) ==
    LET whole == IF hours >= 0 THEN hours \div 24 ELSE 0 - ((0 - hours) \div 24)
    IN  IF whole \in 0..65535 THEN whole ELSE ub

\* certManager.decodeP12Cert(certPath, password) at time t, on the container p12
\* found at certPath: [cm (the manager afterwards), err]
decodeP12Cert(cm, p12, t, ub) ==
    IF ~p12.readable THEN [cm |-> cm, err |-> "failed to read certificate"]
    ELSE IF ~p12.decodes THEN [cm |-> cm, err |-> "failed to convert P12 to PEM"]
    ELSE With(DecodeBlocks([err |-> Nil, privateKey |-> NoKey,
                            certificate |-> NoP12Cert, caCerts |-> <<>>], p12.blocks), LAMBDA st :
             IF st.err # Nil THEN [cm |-> cm, err |-> st.err]
             ELSE IF st.privateKey = NoKey
             THEN [cm |-> cm, err |-> "private key not found in P12 file"]
             ELSE IF st.certificate = NoP12Cert
             THEN [cm |-> cm, err |-> "certificate not found in P12 file"]
             ELSE With([cm EXCEPT !.privateKey = st.privateKey,
                                  !.publicCert = st.certificate,
                                  !.caCerts = st.caCerts], LAMBDA cm1 :
                  With(st.certificate.notAfter - t, LAMBDA hours :
                  With([cm1 EXCEPT
                          !.expired = IF t > st.certificate.notAfter THEN TRUE ELSE @,
                          !.expire_days = Uint16OfDays(hours, ub),
                          !.expire_soon = IF hours <= 30 * 24 THEN TRUE ELSE @], LAMBDA cm2 :
                  With(getCertOIB(cm2), LAMBDA o :
                      IF t < st.certificate.notBefore
                      THEN [cm |-> cm1, err |-> "certificate is not valid yet"]
                      ELSE IF o.err # Nil
                      THEN [cm |-> cm2, err |-> "error extracting OIB"]
                      ELSE [cm |-> [cm2 EXCEPT !.certOIB = o.oib,
                                               !.certORG = st.certificate.organization[1],
                                               !.init_ok = TRUE],
                            err |-> Nil])))))

(***************************************************************************)
(* The fiscal entity                                                       *)
(***************************************************************************)
production_url == "https://cis.porezna-uprava.hr:8449/FiskalizacijaService"

demo_url == "https://cistest.apis-it.hr:8449/FiskalizacijaServiceTest"

NoEntity == [nilEntity |-> TRUE]

NilInvoice == [nilInvoice |-> TRUE]

\* a NewFiskalEntity that does not compare the OIB with the one of the certificate
NewFiskalEntityAnyOIB(oib, sustavPDV, locationID, centralizedInvoiceNumber, demoMode, chk_expired, p12, t, ub) ==
    With(IF demoMode THEN getDemoPublicKey(t) ELSE getProductionPublicKey(t), LAMBDA CIS :
    With(decodeP12Cert(newCertManager, p12, t, ub), LAMBDA dec :
    LET cert == dec.cm
        Fail(msg) == [entity |-> NoEntity, err |-> msg]
    IN  IF ~ValidateOIB(oib) THEN Fail("invalid OIB")
        ELSE IF ~ValidateLocationID(locationID) THEN Fail("invalid locationID")
        ELSE IF ~p12.readable THEN Fail("invalid certificate path or file not readable")
        ELSE IF CIS.err # Nil THEN Fail("failed to get CIS public key and CA pool")
        ELSE IF dec.err # Nil THEN Fail("certificate decode fail")
        ELSE IF ~cert.init_ok THEN Fail("failed to initialize the certificate manager")
        ELSE IF chk_expired /\ cert.expired THEN Fail("certificate expired")
        ELSE [entity |-> [oib |-> oib, sustPDV |-> sustavPDV, locationID |-> locationID,
                          centralizedInvoiceNumber |-> centralizedInvoiceNumber,
                          cert |-> cert, demoMode |-> demoMode, ciscert |-> CIS.cert,
                          url |-> IF demoMode THEN demo_url ELSE production_url],
              err |-> Nil]))

\* NewFiskalEntity(...) at time t, certPath naming the container p12: [entity, err]
NewFiskalEntity(oib, sustavPDV, locationID, centralizedInvoiceNumber, demoMode, chk_expired, p12, t, ub) ==
    With(IF demoMode THEN getDemoPublicKey(t) ELSE getProductionPublicKey(t), LAMBDA CIS :
    With(decodeP12Cert(newCertManager, p12, t, ub), LAMBDA dec :
    LET cert == dec.cm
        Fail(msg) == [entity |-> NoEntity, err |-> msg]
    IN  IF ~ValidateOIB(oib) THEN Fail("invalid OIB")
        ELSE IF ~ValidateLocationID(locationID) THEN Fail("invalid locationID")
        ELSE IF ~p12.readable THEN Fail("invalid certificate path or file not readable")
        ELSE IF CIS.err # Nil THEN Fail("failed to get CIS public key and CA pool")
        ELSE IF dec.err # Nil THEN Fail("certificate decode fail")
        ELSE IF ~cert.init_ok THEN Fail("failed to initialize the certificate manager")
        ELSE IF cert.certOIB # oib THEN Fail("OIB does not match the certificate")
        ELSE IF chk_expired /\ cert.expired THEN Fail("certificate expired")
        ELSE [entity |-> [oib |-> oib, sustPDV |-> sustavPDV, locationID |-> locationID,
                          centralizedInvoiceNumber |-> centralizedInvoiceNumber,
                          cert |-> cert, demoMode |-> demoMode, ciscert |-> CIS.cert,
                          url |-> IF demoMode THEN demo_url ELSE production_url],
              err |-> Nil]))

\* a guard code without the device number
GuardCodeWithoutDevice(ent, issueDateTime, invoiceNumber, deviceID, totalAmount) ==
    Concat(<<ent.oib, FormatTime(issueDateTime, <<" ">>), FormatUint(invoiceNumber),
             ent.locationID, totalAmount>>)

\* the string GenerateZKI hashes
GuardCode(ent, issueDateTime, invoiceNumber, deviceID, totalAmount) ==
    Concat(<<ent.oib, FormatTime(issueDateTime, <<" ">>), FormatUint(invoiceNumber),
             ent.locationID, FormatUint(deviceID), totalAmount>>)

\* FiskalEntity.GenerateZKI(issueDateTime, invoiceNumber, deviceID, totalAmount), with
\* the state of rand.Reader as random: [zki, err]
GenerateZKI(ent, issueDateTime, invoiceNumber, deviceID, totalAmount, random) ==
    IF ~IsValidCurrencyFormat(totalAmount)
    THEN [zki |-> <<>>, err |-> "invalid totalAmount format"]
    ELSE LET guardCode == GuardCode(ent, issueDateTime, invoiceNumber, deviceID, totalAmount)
             hashed    == sha1Sum(guardCode)
             signature == SignPKCS1v15(random, ent.cert.privateKey, hashed)
             md5Hash   == md5Sum(signature)
         IN  [zki |-> HexEncode(md5Hash), err |-> Nil]

(***************************************************************************)
(* The values the operations are exercised on                              *)
(***************************************************************************)
OIB1 == <<"6", "5", "0", "4", "9", "9", "0", "1", "5", "4", "8">>

OIB2 == <<"1", "2", "3", "4", "5", "6", "7", "8", "9", "0", "3">>

OIBBad == <<"1", "2", "3", "4", "5", "6", "7", "8", "9", "0", "0">>

LocationIDs == {<<"A">>, <<"2", "A">>}

InvoiceNumbers == {1, 12}

DeviceIDs == {1, 2}

Amounts == {<<"9", "0", ".", "0", "0">>, <<"9", "0", ".", "0", "1">>, <<"9", "0">>}

RandomStates == {0, 1}

\* 17.05.2024 16:00:38 UTC; the same instant plus 500ns; one second later
T0 == Time(2024, 5, 17, 16, 0, 38, 0, "UTC")

T0ns == Time(2024, 5, 17, 16, 0, 38, 500, "UTC")

T1 == Time(2024, 5, 17, 16, 0, 39, 0, "UTC")

IssueTimes == {T0, T0ns, T1}

\* the end-entity certificate of a taxpayer: O = "LAB HR<oib>", C = "HR"
P12Certificate(oib, serial, notBefore, notAfter) ==
    [isCA |-> FALSE, organization |-> << <<"L", "A", "B", " ", "H", "R">> \o oib >>,
     country |-> << <<"H", "R">> >>, serial |-> serial, issuer |-> <<"C", "A">>,
     raw |-> <<48, 130, serial % 256>>, notBefore |-> notBefore, notAfter |-> notAfter]

P12IssuerCertificate ==
    [isCA |-> TRUE, organization |-> << <<"C", "A">> >>, country |-> << <<"H", "R">> >>,
     serial |-> 900, issuer |-> <<"C", "A">>, raw |-> <<48, 130, 0>>,
     notBefore |-> 0, notAfter |-> 1000000]

\* a PKCS#12 container as pkcs12.ToPEM unpacks it
P12File(key, cert) ==
    [readable |-> TRUE, decodes |-> TRUE,
     blocks |-> <<[type |-> "PRIVATE KEY", form |-> "pkcs8-rsa", key |-> [n |-> key]],
                  [type |-> "CERTIFICATE", parses |-> TRUE, cert |-> cert],
                  [type |-> "CERTIFICATE", parses |-> TRUE, cert |-> P12IssuerCertificate]>>]

\* bundle A (key 1, expires at 40), bundle B (key 2, valid from 30), both of OIB1,
\* and a bundle of OIB2
P12A == P12File(1, P12Certificate(OIB1, 11, 0, 40))

P12B == P12File(2, P12Certificate(OIB1, 12, 30, 2000))

P12C == P12File(3, P12Certificate(OIB2, 13, 0, 2000))

Clock == {25, 50}

\* the entities NewFiskalEntity(..., chk_expired = false, ...) returns on these values
\* once bundle A has expired
Entities ==
    LET made == {NewFiskalEntity(oib, TRUE, loc, FALSE, TRUE, FALSE, p12, 50, 0) :
                    oib \in {OIB1, OIB2}, loc \in LocationIDs, p12 \in {P12A, P12B, P12C}}
    IN  {r.entity : r \in {m \in made : m.err = Nil}}

(***************************************************************************)
(* SpecZKI: GenerateZKI applied to arguments drawn from the values above   *)
(***************************************************************************)
ZKIArgs ==
    [ent : Entities, issueDateTime : IssueTimes, invoiceNumber : InvoiceNumbers,
     deviceID : DeviceIDs, totalAmount : Amounts]

\* saved holds the arguments of the calls still to be made, last the calls made
InitZKI ==
    /\ saved \in {<<a, b>> : a \in ZKIArgs, b \in ZKIArgs}
    /\ last = <<>>
    /\ entity = NoEntity
    /\ invoice = NilInvoice
    /\ certFS = <<>>
    /\ now = 0
    /\ manager = newCertManager
    /\ calls = 0

CallGenerateZKI ==
    /\ saved # <<>>
    /\ \E random \in RandomStates :
          \E a \in {Head(saved)} :
          \E r \in {GenerateZKI(a.ent, a.issueDateTime, a.invoiceNumber, a.deviceID,
                                a.totalAmount, random)} :
              last' = Append(last, [args |-> a, zki |-> r.zki, err |-> r.err])
    /\ saved' = Tail(saved)
    /\ calls' = calls + 1
    /\ UNCHANGED <<manager, entity, invoice, certFS, now>>

NextZKI == CallGenerateZKI

SpecZKI == InitZKI /\ [][NextZKI]_vars

\* the six inputs of a call of GenerateZKI
ZKIInputs(a) ==
    <<a.ent.oib, a.issueDateTime, a.invoiceNumber, a.ent.locationID, a.deviceID, a.totalAmount>>

\* the same, with the timestamp as GenerateZKI prints it
ZKIInputsAsPrinted(a) ==
    <<a.ent.oib, FormatTime(a.issueDateTime, <<" ">>), a.invoiceNumber, a.ent.locationID,
      a.deviceID, a.totalAmount>>

DifferInOne(x, y) == Cardinality({k \in 1..6 : x[k] # y[k]}) = 1

SameKey(a, b) == a.ent.cert.privateKey = b.ent.cert.privateKey

GuardCodeOf(a) == GuardCode(a.ent, a.issueDateTime, a.invoiceNumber, a.deviceID, a.totalAmount)

IsLowerHex32(s) == Len(s) = 32 /\ \A i \in 1..32 : s[i] \in HexSet

\* C1: two calls of GenerateZKI on the same OIB, location ID, private key, timestamp,
\* invoice number, device number and total return the same result whatever the random
\* source holds and whatever call came before, and a ZKI that is returned is 32
\* lowercase hexadecimal characters.
ZKIDeterministic ==
    /\ \A i, j \in 1..Len(last) :
          ZKIInputs(last[i].args) = ZKIInputs(last[j].args) /\ SameKey(last[i].args, last[j].args)
             => last[i].zki = last[j].zki /\ last[i].err = last[j].err
    /\ \A i \in 1..Len(last) : last[i].err = Nil => IsLowerHex32(last[i].zki)

\* two successful calls with the same inputs and key, after a different call or not
ZKIRepeatedCall ==
    /\ Len(last) = 2
    /\ ZKIInputs(last[1].args) = ZKIInputs(last[2].args)
    /\ SameKey(last[1].args, last[2].args)
    /\ last[2].err = Nil
    /\ IsLowerHex32(last[2].zki)

\* C2 as stated: under one key, two calls that differ in exactly one of the six
\* inputs hash different strings and return different ZKIs; with the same six inputs,
\* two keys return different ZKIs.
ZKIChangesWithAnyInput ==
    \A i, j \in 1..Len(last) :
       LET a == last[i].args
           b == last[j].args
       IN  /\ SameKey(a, b) /\ DifferInOne(ZKIInputs(a), ZKIInputs(b))
              => GuardCodeOf(a) # GuardCodeOf(b) /\ last[i].zki # last[j].zki
           /\ ~SameKey(a, b) /\ ZKIInputs(a) = ZKIInputs(b) => last[i].zki # last[j].zki

\* C2: for two calls that both succeed, the above holds when the timestamps are
\* compared as GenerateZKI prints them (dd.MM.yyyy HH:mm:ss in the value's location).
ZKIChangesWithAnyPrintedInput ==
    \A i, j \in 1..Len(last) :
       LET a == last[i].args
           b == last[j].args
       IN  last[i].err = Nil /\ last[j].err = Nil =>
           /\ SameKey(a, b) /\ DifferInOne(ZKIInputsAsPrinted(a), ZKIInputsAsPrinted(b))
              => GuardCodeOf(a) # GuardCodeOf(b) /\ last[i].zki # last[j].zki
           /\ ~SameKey(a, b) /\ ZKIInputsAsPrinted(a) = ZKIInputsAsPrinted(b)
              => last[i].zki # last[j].zki

\* two successful calls under one key that differ in the device number only
ZKIOneInputChanged ==
    /\ Len(last) = 2
    /\ last[1].err = Nil /\ last[2].err = Nil
    /\ SameKey(last[1].args, last[2].args)
    /\ DifferInOne(ZKIInputsAsPrinted(last[1].args), ZKIInputsAsPrinted(last[2].args))
    /\ last[1].args.deviceID # last[2].args.deviceID

(***************************************************************************)
(* SpecCIS: parseAndVerifyEmbeddedCerts on directories of bundle files     *)
(***************************************************************************)
MaxFiles == 3

MaxParseCalls == 2

\* a bundle file: leaf, intermediate, root
BundleOf(leaf) ==
    [isDir |-> FALSE, matches |-> TRUE,
     blocks |-> <<PEMCert(leaf),
                  PEMCert(CISCertificate("CA", "Root", 101, 0, 1000000, TRUE)),
                  PEMCert(CISCertificate("Root", "Root", 102, 0, 1000000, TRUE))>>]

\* bundles valid at every time of Clock: two of them with the same NotBefore, one
\* with an elliptic-curve key
Bundle1 == BundleOf(CISCertificate("cis1", "CA", 1, 0, 100, TRUE))

Bundle2 == BundleOf(CISCertificate("cis2", "CA", 2, 10, 100, TRUE))

Bundle3 == BundleOf(CISCertificate("cis3", "CA", 3, 10, 200, TRUE))

BundleEC == BundleOf(CISCertificate("cisEC", "CA", 4, 5, 100, FALSE))

\* not yet valid at 25, expired at 25, issued by an authority that is not in the file
BundleNew == BundleOf(CISCertificate("cis5", "CA", 5, 30, 100, TRUE))

BundleExpired == BundleOf(CISCertificate("cis6", "CA", 6, 0, 20, TRUE))

BundleForeign == BundleOf(CISCertificate("cis7", "OtherCA", 7, 40, 100, TRUE))

\* a certificate on its own is its own root
SelfSigned ==
    [isDir |-> FALSE, matches |-> TRUE,
     blocks |-> <<PEMCert(CISCertificate("self", "self", 8, 20, 100, TRUE))>>]

KeyFile ==
    [isDir |-> FALSE, matches |-> TRUE,
     blocks |-> <<[type |-> "PRIVATE KEY", parses |-> FALSE, cert |-> NoCert]>>]

GarbledFile ==
    [isDir |-> FALSE, matches |-> TRUE,
     blocks |-> <<[type |-> "CERTIFICATE", parses |-> FALSE, cert |-> NoCert]>>]

EmptyFile == [isDir |-> FALSE, matches |-> TRUE, blocks |-> <<>>]

SubDirectory == [isDir |-> TRUE, matches |-> TRUE, blocks |-> <<>>]

OtherFile == [isDir |-> FALSE, matches |-> FALSE, blocks |-> <<>>]

CISFiles ==
    {Bundle1, Bundle2, Bundle3, BundleEC, BundleNew, BundleExpired, BundleForeign,
     SelfSigned, KeyFile, GarbledFile, EmptyFile, SubDirectory, OtherFile}

\* the directories of at most MaxFiles distinct entries, in every order
Directories ==
    UNION {{d \in [1..n -> CISFiles] : \A i, j \in 1..n : i # j => d[i] # d[j]} : n \in 0..MaxFiles}

InitCIS ==
    /\ certFS \in Directories
    /\ now \in Clock
    /\ last = <<>>
    /\ saved = <<>>
    /\ entity = NoEntity
    /\ invoice = NilInvoice
    /\ manager = newCertManager
    /\ calls = 0

\* a call of parseAndVerifyEmbeddedCerts on the directory
CallParseAndVerify ==
    /\ calls < MaxParseCalls
    /\ calls' = calls + 1
    /\ last' = <<[files |-> certFS, t |-> now, res |-> parseAndVerifyEmbeddedCerts(certFS, now)]>>
    /\ UNCHANGED <<manager, entity, invoice, saved, certFS, now>>

\* time passes
ClockAdvances ==
    /\ \E t \in Clock : t > now /\ now' = t
    /\ UNCHANGED <<manager, entity, invoice, last, saved, certFS, calls>>

NextCIS == CallParseAndVerify \/ ClockAdvances

SpecCIS == InitCIS /\ [][NextCIS]_vars

\* the leaves of the matching files of a directory that verify against their own
\* chain and are valid at t
SurvivingLeaves(files, t) ==
    {files[i].blocks[1].cert : i \in {k \in 1..Len(files) :
        /\ ~files[k].isDir /\ files[k].matches
        /\ ParsePEM(files[k].blocks).err = Nil
        /\ files[k].blocks # <<>>
        /\ VerifyChain(ParsePEM(files[k].blocks).certs, t)
        /\ InValidity(files[k].blocks[1].cert, t)}}

\* the orders in which a directory can be enumerated
Reorderings(files) ==
    {[i \in 1..Len(files) |-> files[q[i]]] :
        q \in {f \in [1..Len(files) -> 1..Len(files)] : \A i, j \in 1..Len(files) : i # j => f[i] # f[j]}}

\* the fields the caller reads of a selected certificate
Selected(res) ==
    IF res.outcome # "ok" THEN <<res.outcome>>
    ELSE <<"ok", res.cert.Serial, res.cert.PublicKey, res.cert.ValidFrom, res.cert.ValidUntil>>

LatestLeaves(files, t) ==
    {c \in SurvivingLeaves(files, t) : \A d \in SurvivingLeaves(files, t) : d.notBefore <= c.notBefore}

\* C10 as stated: a successful call selects a surviving leaf with the latest NotBefore,
\* and every enumeration order of the same files selects the same certificate.
SelectionIndependentOfOrder ==
    \A k \in 1..Len(last) :
       last[k].res.outcome = "ok" =>
          /\ \E c \in LatestLeaves(last[k].files, last[k].t) :
                /\ c.serial = last[k].res.cert.Serial
                /\ c.notBefore = last[k].res.cert.ValidFrom
          /\ \A d \in Reorderings(last[k].files) :
                Selected(parseAndVerifyEmbeddedCerts(d, last[k].t)) = Selected(last[k].res)

\* C10: a successful call selects a surviving leaf with the latest NotBefore, the first
\* enumerated of them; every enumeration order that succeeds selects the same ValidFrom,
\* and when one surviving leaf alone has the latest NotBefore every order selects it.
SelectionLatestFirstEnumerated ==
    \A k \in 1..Len(last) :
       LET files  == last[k].files
           res    == last[k].res
           latest == LatestLeaves(files, last[k].t)
       IN  res.outcome = "ok" =>
              /\ \E c \in latest :
                    /\ c.serial = res.cert.Serial /\ c.id = res.cert.PublicKey
                    /\ c.notBefore = res.cert.ValidFrom /\ c.notAfter = res.cert.ValidUntil
                    /\ \E i \in 1..Len(files) :
                          /\ files[i].blocks # <<>> /\ files[i].blocks[1].cert = c
                          /\ \A j \in 1..(i - 1) :
                                files[j].blocks = <<>> \/ files[j].blocks[1].cert \notin latest
              /\ \A d \in Reorderings(files) :
                    LET other == parseAndVerifyEmbeddedCerts(d, last[k].t)
                    IN  /\ other.outcome = "ok" => other.cert.ValidFrom = res.cert.ValidFrom
                        /\ Cardinality(latest) = 1 => Selected(other) = Selected(res)

\* a successful call on a directory of three surviving bundles
SelectedAmongThree ==
    /\ Len(last) = 1
    /\ last[1].res.outcome = "ok"
    /\ Cardinality(SurvivingLeaves(last[1].files, last[1].t)) = 3
    /\ Cardinality(LatestLeaves(last[1].files, last[1].t)) = 1
    /\ last[1].files[1].blocks[1].cert \in LatestLeaves(last[1].files, last[1].t)

(***************************************************************************)
(* encoding/base64 and the XML documents of github.com/beevik/etree.       *)
(* A byte slice holding XML is the sequence of its lexical tokens; Render  *)
(* gives the text of a token sequence, which is what a digest reads.  The  *)
(* values of the model hold no character that XML escapes.                 *)
(***************************************************************************)
Base64Table == UpperCase \o LowerCase \o Digits \o <<"+", "/">>

\* base64.StdEncoding.EncodeToString
Base64Encode(bytes) ==
    LET n == Len(bytes)
        At(i) == IF i <= n THEN bytes[i] ELSE 0
        Char(j) ==
           LET k   == 3 * ((j - 1) \div 4)
               pos == (j - 1) % 4
           IN  IF pos = 0 THEN Base64Table[(At(k + 1) \div 4) + 1]
               ELSE IF pos = 1 THEN Base64Table[((At(k + 1) % 4) * 16 + At(k + 2) \div 16) + 1]
               ELSE IF pos = 2
               THEN (IF k + 2 > n THEN "=" ELSE Base64Table[((At(k + 2) % 16) * 4 + At(k + 3) \div 64) + 1])
               ELSE (IF k + 3 > n THEN "=" ELSE Base64Table[(At(k + 3) % 64) + 1])
    IN  [j \in 1..(4 * ((n + 2) \div 3)) |-> Char(j)]

\* an attribute; a namespace declaration has space "xmlns", or key "xmlns" with no space
Attr(space, key, value) == [space |-> space, key |-> key, value |-> value]

\* the tokens of an etree tree
Element(space, tag, attrs, child) ==
    [kind |-> "element", space |-> space, tag |-> tag, attrs |-> attrs, child |-> child,
     data |-> <<>>]

CharData(data) ==
    [kind |-> "text", space |-> "", tag |-> "", attrs |-> <<>>, child |-> <<>>, data |-> data]

Comment(data) ==
    [kind |-> "comment", space |-> "", tag |-> "", attrs |-> <<>>, child |-> <<>>, data |-> data]

ProcInst ==
    [kind |-> "procinst", space |-> "", tag |-> "", attrs |-> <<>>, child |-> <<>>, data |-> <<>>]

\* the lexical tokens of XML text; Malformed is markup that is not XML
Tok(k, space, tag, attrs, data) ==
    [k |-> k, space |-> space, tag |-> tag, attrs |-> attrs, data |-> data]

StartTag(space, tag, attrs) == Tok("start", space, tag, attrs, <<>>)

EmptyTag(space, tag, attrs) == Tok("empty", space, tag, attrs, <<>>)

EndTag(space, tag) == Tok("end", space, tag, <<>>, <<>>)

TextTok(data) == Tok("text", "", "", <<>>, data)

CommentTok(data) == Tok("comment", "", "", <<>>, data)

DeclTok == Tok("procinst", "", "", <<>>, <<>>)

Malformed == Tok("malformed", "", "", <<>>, <<>>)

QName(space, name) == IF space = "" THEN <<name>> ELSE <<space, ":", name>>

RECURSIVE RenderAttrs(_)
RenderAttrs(attrs) ==
    IF attrs = <<>> THEN <<>>
    ELSE <<" ">> \o QName(Head(attrs).space, Head(attrs).key) \o <<"=", "\"">>
         \o Head(attrs).value \o <<"\"">> \o RenderAttrs(Tail(attrs))

RenderTok(t) ==
    IF t.k = "start" THEN <<"<">> \o QName(t.space, t.tag) \o RenderAttrs(t.attrs) \o <<">">>
    ELSE IF t.k = "empty"
    THEN <<"<">> \o QName(t.space, t.tag) \o RenderAttrs(t.attrs) \o <<"/", ">">>
    ELSE IF t.k = "end" THEN <<"<", "/">> \o QName(t.space, t.tag) \o <<">">>
    ELSE IF t.k = "text" THEN t.data
    ELSE IF t.k = "comment" THEN <<"<!--">> \o t.data \o <<"-->">>
    ELSE IF t.k = "procinst" THEN <<"<?xml?>">>
    ELSE <<"<">>

\* the text of a token sequence
Render(toks) == Concat([i \in 1..Len(toks) |-> RenderTok(toks[i])])

\* the nesting depth after each token
Depths(toks) ==
    PrefixSums([i \in 1..Len(toks) |->
                   IF toks[i].k = "start" THEN 1 ELSE IF toks[i].k = "end" THEN 0 - 1 ELSE 0])

\* a node that is not an element with children
Leaf(t) ==
    IF t.k = "empty" THEN Element(t.space, t.tag, t.attrs, <<>>)
    ELSE IF t.k = "text" THEN CharData(t.data)
    ELSE IF t.k = "comment" THEN Comment(t.data)
    ELSE ProcInst

RECURSIVE ParseNodes(_, _, _, _)
\* the nodes written by the tokens lo..hi of a properly nested token sequence, and
\* whether every end tag carries the name of its start tag: [ok, nodes]
ParseNodes(toks, depth, lo, hi) ==
    LET Before(k) == IF k = 1 THEN 0 ELSE depth[k - 1]
        first == SelectSeq([i \in 1..(hi - lo + 1) |-> lo + i - 1],
                           LAMBDA k : toks[k].k # "end" /\ Before(k) = Before(lo))
        Final(r) == IF r < Len(first) THEN first[r + 1] - 1 ELSE hi
        Node(r) ==
            IF toks[first[r]].k # "start" THEN [ok |-> TRUE, node |-> Leaf(toks[first[r]])]
            ELSE With(toks[first[r]], LAMBDA t :
                 With(toks[Final(r)], LAMBDA end :
                 With(ParseNodes(toks, depth, first[r] + 1, Final(r) - 1), LAMBDA inner :
                     [ok   |-> inner.ok /\ end.space = t.space /\ end.tag = t.tag,
                      node |-> Element(t.space, t.tag, t.attrs, inner.nodes)])))
    IN  With(<<>> \o [r \in 1..Len(first) |-> Node(r)], LAMBDA parsed :
            [ok    |-> \A r \in 1..Len(parsed) : parsed[r].ok,
             nodes |-> [r \in 1..Len(parsed) |-> parsed[r].node]])

NoElement == [kind |-> "nil"]

\* etree.Document.ReadFromBytes: [err, child (the tokens of the document)]
ReadFromBytes(toks) ==
    With(Depths(toks), LAMBDA depth :
    With([err |-> "XML syntax error", child |-> <<>>], LAMBDA syntaxError :
        IF \/ \E i \in 1..Len(toks) : toks[i].k = "malformed" \/ depth[i] < 0
           \/ (toks # <<>> /\ depth[Len(toks)] # 0)
        THEN syntaxError
        ELSE With(ParseNodes(toks, depth, 1, Len(toks)), LAMBDA r :
                 IF r.ok THEN [err |-> Nil, child |-> r.nodes] ELSE syntaxError)))

\* etree.Document.Root: the first element of the document, NoElement when there is none
Root(child) ==
    LET at == {i \in 1..Len(child) : child[i].kind = "element"}
    IN  IF at = {} THEN NoElement ELSE child[CHOOSE i \in at : \A j \in at : i <= j]

RECURSIVE WriteNodes(_, _)
\* etree.Document.WriteToBytes: with CanonicalEndTags an element without children is
\* written as a start and an end tag, otherwise as an empty-element tag
WriteNodes(nodes, canonicalEndTags) ==
    LET Write(n) ==
            IF n.kind = "element"
            THEN IF n.child = <<>> /\ ~canonicalEndTags
                 THEN <<EmptyTag(n.space, n.tag, n.attrs)>>
                 ELSE <<StartTag(n.space, n.tag, n.attrs)>>
                      \o WriteNodes(n.child, canonicalEndTags)
                      \o <<EndTag(n.space, n.tag)>>
            ELSE IF n.kind = "text" THEN <<TextTok(n.data)>>
            ELSE IF n.kind = "comment" THEN <<CommentTok(n.data)>>
            ELSE <<DeclTok>>
    IN  Concat([i \in 1..Len(nodes) |-> Write(nodes[i])])

(***************************************************************************)
(* canonicalization.go: exclusive canonicalization                         *)
(***************************************************************************)
NSPrefixes == {"", "ds", "tns"}

Undeclared == <<"undeclared">>

\* the bindings in scope outside the document: the default namespace is empty
DefaultNSContext == [p \in NSPrefixes |-> IF p = "" THEN <<>> ELSE Undeclared]

IsNSDecl(a) == a.space = "xmlns" \/ (a.space = "" /\ a.key = "xmlns")

DeclaredPrefix(a) == IF a.space = "xmlns" THEN a.key ELSE ""

RECURSIVE SubContext(_, _)
\* the bindings in scope inside an element with these attributes
SubContext(scope, attrs) ==
    IF attrs = <<>> THEN scope
    ELSE SubContext(IF IsNSDecl(Head(attrs))
                    THEN [scope EXCEPT ![DeclaredPrefix(Head(attrs))] = Head(attrs).value]
                    ELSE scope,
                    Tail(attrs))

\* the place of an attribute in canonical order: namespace declarations first, the
\* default one before the prefixed ones, then the attributes by namespace and name
AttrRank(a, scope) ==
    LET uri == IF a.space = "" THEN <<>> ELSE scope[a.space]
    IN  IF IsNSDecl(a) THEN (IF a.space = "" THEN 0 ELSE Ord(a.key))
        ELSE 1000000 + 1000 * (IF uri = <<>> THEN 0 ELSE Ord(uri[1])) + Ord(a.key)

RECURSIVE SortedAttrs(_, _)
\* sort.Sort(etreeutils.SortedAttrs(attrs))
SortedAttrs(attrs, scope) ==
    IF attrs = <<>> THEN <<>>
    ELSE LET least == CHOOSE i \in 1..Len(attrs) :
                         \A j \in 1..Len(attrs) :
                            \/ AttrRank(attrs[i], scope) < AttrRank(attrs[j], scope)
                            \/ (AttrRank(attrs[i], scope) = AttrRank(attrs[j], scope) /\ i <= j)
             rest  == [k \in 1..(Len(attrs) - 1) |-> IF k < least THEN attrs[k] ELSE attrs[k + 1]]
         IN  <<attrs[least]>> \o SortedAttrs(rest, scope)

RECURSIVE SeqOfSet(_)
SeqOfSet(S) == IF S = {} THEN <<>> ELSE LET x == CHOOSE y \in S : TRUE IN <<x>> \o SeqOfSet(S \ {x})

RECURSIVE TransformExcC14n(_, _, _, _)
RECURSIVE TransformChildren(_, _, _, _)
\* etreeutils.TransformExcC14n(el, "", comments) under the bindings in scope and the
\* bindings already written by the ancestors: [err, el]
TransformExcC14n(el, scope, declared, comments) ==
    LET inner    == SubContext(scope, el.attrs)
        plain    == SelectSeq(el.attrs, LAMBDA a : ~IsNSDecl(a))
        utilized == {el.space} \cup ({plain[i].space : i \in 1..Len(plain)} \ {""})
        needed   == {p \in utilized : declared[p] # inner[p]}
        decls    == [p \in needed |->
                       IF p = "" THEN Attr("", "xmlns", inner[p]) ELSE Attr("xmlns", p, inner[p])]
        written  == [p \in NSPrefixes |-> IF p \in needed THEN inner[p] ELSE declared[p]]
        attrs    == SortedAttrs(plain \o SeqOfSet({decls[p] : p \in needed}), inner)
        kids     == TransformChildren(el.child, inner, written, comments)
    IN  IF \E p \in utilized : p \notin NSPrefixes \/ inner[p] = Undeclared
        THEN [err |-> "undeclared namespace prefix", el |-> NoElement]
        ELSE IF kids.err # Nil THEN [err |-> kids.err, el |-> NoElement]
        ELSE [err |-> Nil, el |-> Element(el.space, el.tag, attrs, kids.nodes)]

\* the children of a transformed element: comments removed unless they are asked
\* for, elements transformed
TransformChildren(nodes, scope, declared, comments) ==
    LET Transform(n) == IF n.kind = "element" THEN TransformExcC14n(n, scope, declared, comments)
                        ELSE [err |-> Nil, el |-> n]
    IN  With(SelectSeq(nodes, LAMBDA n : comments \/ n.kind # "comment"), LAMBDA kept :
        With(<<>> \o [i \in 1..Len(kept) |-> Transform(kept[i])], LAMBDA done :
        With({i \in 1..Len(done) : done[i].err # Nil}, LAMBDA failed :
            IF failed # {}
            THEN [err |-> done[CHOOSE i \in failed : \A j \in failed : i <= j].err, nodes |-> <<>>]
            ELSE [err |-> Nil, nodes |-> [i \in 1..Len(done) |-> done[i].el]])))

\* canonicalSerialize: CanonicalEndTags, CanonicalText, CanonicalAttrVal
canonicalSerialize(el) == WriteNodes(<<el>>, TRUE)

\* c14N10ExclusiveCanonicalizer.Canonicalize: [bytes, err]
Canonicalize(el) ==
    With(TransformExcC14n(el, DefaultNSContext, DefaultNSContext, FALSE), LAMBDA t :
        IF t.err # Nil THEN [bytes |-> <<>>, err |-> t.err]
        ELSE [bytes |-> canonicalSerialize(t.el), err |-> Nil])

\* doc14n(xmlData): [bytes, err]; a document without root element makes
\* Canonicalize dereference a nil element
doc14n(xmlData) ==
    With(ReadFromBytes(xmlData), LAMBDA doc :
    With(Root(doc.child), LAMBDA root :
        IF doc.err # Nil THEN [bytes |-> <<>>, err |-> "failed to parse XML"]
        ELSE IF root = NoElement
        THEN [bytes |-> <<>>, err |-> "panic: nil pointer dereference"]
        ELSE With(Canonicalize(root), LAMBDA c :
                 IF c.err # Nil THEN [bytes |-> <<>>, err |-> "failed to canonicalize the XML"]
                 ELSE c)))

(***************************************************************************)
(* ciscomm.go: the signature block, signXML, verifyXML and GetResponse     *)
(***************************************************************************)
XMLDSig == <<"http://www.w3.org/2000/09/xmldsig#">>

ExcC14nAlgorithm == <<"http://www.w3.org/2001/10/xml-exc-c14n#">>

createSignedInfoElement(referenceURI, digestValue) ==
    Element("", "SignedInfo", <<Attr("", "xmlns", XMLDSig)>>,
        <<Element("", "CanonicalizationMethod", <<Attr("", "Algorithm", ExcC14nAlgorithm)>>, <<>>),
          Element("", "SignatureMethod",
              <<Attr("", "Algorithm", <<"http://www.w3.org/2000/09/xmldsig#rsa-sha1">>)>>, <<>>),
          Element("", "Reference", <<Attr("", "URI", <<"#">> \o referenceURI)>>,
              <<Element("", "Transforms", <<>>,
                    <<Element("", "Transform",
                          <<Attr("", "Algorithm",
                                 <<"http://www.w3.org/2000/09/xmldsig#enveloped-signature">>)>>, <<>>),
                      Element("", "Transform", <<Attr("", "Algorithm", ExcC14nAlgorithm)>>, <<>>)>>),
                Element("", "DigestMethod",
                    <<Attr("", "Algorithm", <<"http://www.w3.org/2000/09/xmldsig#sha1">>)>>, <<>>),
                Element("", "DigestValue", <<>>, <<CharData(digestValue)>>)>>)>>)

createSignatureElement(signedInfoElement, signatureValue, cert) ==
    Element("", "Signature", <<Attr("", "xmlns", XMLDSig)>>,
        <<signedInfoElement,
          Element("", "SignatureValue", <<>>, <<CharData(signatureValue)>>),
          Element("", "KeyInfo", <<>>,
              <<Element("", "X509Data", <<>>,
                    <<Element("", "X509Certificate", <<>>, <<CharData(Base64Encode(cert.raw))>>),
                      Element("", "X509IssuerSerial", <<>>,
                          <<Element("", "X509IssuerName", <<>>, <<CharData(cert.issuer)>>),
                            Element("", "X509SerialNumber", <<>>,
                                <<CharData(FormatUint(cert.serial))>>)>>)>>)>>)>>)

\* etree.Element.SelectAttrValue(key, dflt): the first attribute with that key, in
\* any namespace
SelectAttrValue(el, key, dflt) ==
    LET at == {i \in 1..Len(el.attrs) : el.attrs[i].key = key}
    IN  IF at = {} THEN dflt ELSE el.attrs[CHOOSE i \in at : \A j \in at : i <= j].value

\* the node added as first child of the root element
AddChildFirst(child, node) ==
    LET at   == {i \in 1..Len(child) : child[i].kind = "element"}
        root == CHOOSE i \in at : \A j \in at : i <= j
    IN  [child EXCEPT ![root] = [@ EXCEPT !.child = <<node>> \o @]]

\* root.AddChild(node): the document with the node added as last child of its root
\* element
AddChildToRoot(child, node) ==
    LET at   == {i \in 1..Len(child) : child[i].kind = "element"}
        root == CHOOSE i \in at : \A j \in at : i <= j
    IN  [child EXCEPT ![root] = [@ EXCEPT !.child = Append(@, node)]]

\* signXML from the canonicalization of the document on: [output, err, steps], steps
\* being the canonicalizations, digests and RSA signatures performed
SignDocument(fe, xmlRequest, child, referenceID) ==
    With(doc14n(xmlRequest), LAMBDA xmlCanonical :
    With(Base64Encode(sha1Sum(Render(xmlCanonical.bytes))), LAMBDA digestValue :
    With(createSignedInfoElement(referenceID, digestValue), LAMBDA signedInfoElement :
    With(WriteNodes(<<signedInfoElement>>, FALSE), LAMBDA signedInfoString :
    With(doc14n(signedInfoString), LAMBDA canonicalizedSignedInfo :
    With(sha1Sum(Render(canonicalizedSignedInfo.bytes)), LAMBDA hashedSignedInfo :
    With(SignPKCS1v15(0, fe.cert.privateKey, hashedSignedInfo), LAMBDA signature :
    With(createSignatureElement(signedInfoElement, Base64Encode(signature), fe.cert.publicCert),
         LAMBDA signatureBlock :
        IF xmlCanonical.err # Nil
        THEN [output |-> <<>>, err |-> "failed to canonicalize XML document", steps |-> <<"c14n">>]
        ELSE IF canonicalizedSignedInfo.err # Nil
        THEN [output |-> <<>>, err |-> "failed to canonicalize SignedInfo",
              steps |-> <<"c14n", "digest", "c14n">>]
        ELSE [output |-> WriteNodes(AddChildToRoot(child, signatureBlock), FALSE), err |-> Nil,
              steps |-> <<"c14n", "digest", "c14n", "digest", "rsa">>]))))))))

\* a signXML that does not look for the Id attribute
signXMLWithoutIdCheck(fe, xmlRequest) ==
    With(ReadFromBytes(xmlRequest), LAMBDA doc :
    With(Root(doc.child), LAMBDA root :
        IF doc.err # Nil
        THEN [output |-> <<>>, err |-> "failed to parse XML document", steps |-> <<>>]
        ELSE IF root = NoElement
        THEN [output |-> <<>>, err |-> "invalid XML: root element not found", steps |-> <<>>]
        ELSE SignDocument(fe, xmlRequest, doc.child, SelectAttrValue(root, "Id", <<>>))))

\* FiskalEntity.signXML(xmlRequest): [output, err, steps]; a nil output is <<>>
signXML(fe, xmlRequest) ==
    With(ReadFromBytes(xmlRequest), LAMBDA doc :
    With(Root(doc.child), LAMBDA root :
    With(SelectAttrValue(root, "Id", <<>>), LAMBDA referenceID :
        IF doc.err # Nil
        THEN [output |-> <<>>, err |-> "failed to parse XML document", steps |-> <<>>]
        ELSE IF root = NoElement
        THEN [output |-> <<>>, err |-> "invalid XML: root element not found", steps |-> <<>>]
        ELSE IF referenceID = <<>>
        THEN [output |-> <<>>, err |-> "no Id attribute found in the root element", steps |-> <<>>]
        ELSE SignDocument(fe, xmlRequest, doc.child, referenceID))))

\* a verifyXML that rejects a response whose signature is not valid
verifyXMLChecking(fe, xmlData) ==
    IF xmlData.signature = "valid" THEN [ok |-> TRUE, err |-> Nil]
    ELSE [ok |-> FALSE, err |-> "signature verification failed"]

\* FiskalEntity.verifyXML(xmlData): [ok, err]
verifyXML(fe, xmlData) == [ok |-> TRUE, err |-> Nil]

NilBody == [nilBody |-> TRUE]

\* FiskalEntity.GetResponse(xmlPayload, sign) when the network and the CIS service
\* behave as net says: [body, status, err, posted], posted being the HTTP requests made
GetResponse(fe, xmlPayload, sign, net) ==
    With(signXML(fe, xmlPayload), LAMBDA signed :
    With([url |-> fe.url, rootCAs |-> fe.ciscert.SSLverifyPoll,
          body |-> IF sign THEN signed.output ELSE xmlPayload], LAMBDA request :
    LET Return(body, status, err) ==
            [body |-> body, status |-> status, err |-> err, posted |-> <<request>>]
    IN  IF fe.ciscert = NoCIScert \/ fe.ciscert.SSLverifyPoll = NoPool
        THEN [body |-> NilBody, status |-> 0, posted |-> <<>>,
              err |-> "CIScert or SSLverifyPoll is not initialized"]
        ELSE IF sign /\ signed.err # Nil
        THEN [body |-> NilBody, status |-> 0, posted |-> <<>>, err |-> "failed to sign XML"]
        ELSE IF net.transport # "ok" THEN Return(NilBody, 0, "failed to make request")
        ELSE IF ~net.readable THEN Return(NilBody, net.status, "failed to read response")
        ELSE IF ~net.soap
        THEN Return(net.raw, net.status, "failed to unmarshal SOAP response")
        ELSE IF sign /\ verifyXML(fe, net.content).err # Nil
        THEN Return(net.content, net.status, "failed to verify CIS signature")
        ELSE IF net.status = 200 THEN Return(net.content, net.status, Nil)
        ELSE Return(net.content, net.status, "CIS returned an error")))

(***************************************************************************)
(* SpecSign: signXML and GetResponse on request documents                  *)
(***************************************************************************)
F73 == <<"http://www.apis-it.hr/fin/2012/types/f73">>

Id1 == <<"R", "1">>

Id2 == <<"R", "2">>

\* <tns:Zaglavlje><tns:IdPoruke>a1</tns:IdPoruke></tns:Zaglavlje><tns:Racun/>
RequestContent ==
    <<StartTag("tns", "Zaglavlje", <<>>), StartTag("tns", "IdPoruke", <<>>), TextTok(<<"a", "1">>),
      EndTag("tns", "IdPoruke"), EndTag("tns", "Zaglavlje"), EmptyTag("tns", "Racun", <<>>)>>

\* <tns:RacunZahtjev attrs>...content...</tns:RacunZahtjev>
Request(attrs, content) ==
    <<StartTag("tns", "RacunZahtjev", attrs)>> \o content \o <<EndTag("tns", "RacunZahtjev")>>

DocPlain == Request(<<Attr("xmlns", "tns", F73), Attr("", "Id", Id1)>>, RequestContent)

DocOtherId == Request(<<Attr("xmlns", "tns", F73), Attr("", "Id", Id2)>>, RequestContent)

\* the attributes in another order, a declaration, comments, white space and a
\* repeated namespace declaration
DocVerbose ==
    <<DeclTok, CommentTok(<<"a">>), TextTok(<<" ">>)>>
    \o Request(<<Attr("", "Id", Id1), Attr("xmlns", "tns", F73)>>,
               <<TextTok(<<" ">>), CommentTok(<<"b">>),
                 EmptyTag("tns", "Racun", <<Attr("xmlns", "tns", F73)>>), TextTok(<<" ">>)>>)

DocNoId == Request(<<Attr("xmlns", "tns", F73)>>, RequestContent)

DocEmptyId == Request(<<Attr("xmlns", "tns", F73), Attr("", "Id", <<>>)>>, RequestContent)

\* the Id on a child, not on the root
DocIdOnChild ==
    Request(<<Attr("xmlns", "tns", F73)>>, <<EmptyTag("tns", "Racun", <<Attr("", "Id", Id1)>>)>>)

\* a document that carries a Signature already
DocSigned ==
    Request(<<Attr("xmlns", "tns", F73), Attr("", "Id", Id1)>>,
            RequestContent \o <<EmptyTag("", "Signature", <<Attr("", "xmlns", XMLDSig)>>)>>)

\* a prefix that no element declares
DocUndeclaredPrefix ==
    Request(<<Attr("xmlns", "tns", F73), Attr("", "Id", Id1)>>, <<EmptyTag("ds", "Racun", <<>>)>>)

DocUndeclaredNoId == Request(<<Attr("xmlns", "tns", F73)>>, <<EmptyTag("ds", "Racun", <<>>)>>)

DocUnclosed == <<StartTag("tns", "RacunZahtjev", <<Attr("", "Id", Id1)>>)>>

DocMalformed == <<Malformed>>

DocEmpty == <<>>

DocNoRoot == <<DeclTok, CommentTok(<<"a">>)>>

RequestDocuments ==
    {DocPlain, DocOtherId, DocVerbose, DocNoId, DocEmptyId, DocIdOnChild, DocSigned,
     DocUndeclaredPrefix, DocUndeclaredNoId, DocUnclosed, DocMalformed, DocEmpty, DocNoRoot}

\* what the network and the CIS service do with a request
Net(transport, readable, status, soap, content) ==
    [transport |-> transport, readable |-> readable, status |-> status, soap |-> soap,
     raw |-> [rawBody |-> TRUE], content |-> content]

\* the content of a SOAP body whose signature is valid, invalid or missing
SignedContent(signature, xml) == [signature |-> signature, xml |-> xml]

\* <tns:EchoResponse>a1</tns:EchoResponse>
EchoResponse ==
    <<StartTag("tns", "EchoResponse", <<>>), TextTok(<<"a", "1">>), EndTag("tns", "EchoResponse")>>

SignNetworks ==
    {Net("fail", TRUE, 0, TRUE, SignedContent("none", EchoResponse)),
     Net("ok", FALSE, 200, TRUE, SignedContent("none", EchoResponse)),
     Net("ok", TRUE, 200, FALSE, SignedContent("none", EchoResponse)),
     Net("ok", TRUE, 500, TRUE, SignedContent("valid", EchoResponse))}
    \cup {Net("ok", TRUE, 200, TRUE, SignedContent(sg, EchoResponse)) :
             sg \in {"valid", "invalid", "none"}}

MaxSignCalls == 1

InitSign ==
    /\ entity \in Entities
    /\ last = <<>>
    /\ saved = <<>>
    /\ invoice = NilInvoice
    /\ certFS = <<>>
    /\ now = 0
    /\ manager = newCertManager
    /\ calls = 0

CallSignXML ==
    /\ calls < MaxSignCalls
    /\ calls' = calls + 1
    /\ \E doc \in RequestDocuments :
          last' = <<[op |-> "signXML", xmlRequest |-> doc, res |-> signXML(entity, doc)]>>
    /\ UNCHANGED <<manager, entity, invoice, saved, certFS, now>>

CallGetResponse ==
    /\ calls < MaxSignCalls
    /\ calls' = calls + 1
    /\ \E doc \in RequestDocuments, sign \in BOOLEAN, net \in SignNetworks :
          last' = <<[op |-> "GetResponse", xmlRequest |-> doc, sign |-> sign, net |-> net,
                     res |-> GetResponse(entity, doc, sign, net)]>>
    /\ UNCHANGED <<manager, entity, invoice, saved, certFS, now>>

NextSign == CallSignXML \/ CallGetResponse

SpecSign == InitSign /\ [][NextSign]_vars

\* the root element of a request has an Id attribute that is not empty
RootHasId(xmlRequest) ==
    LET doc == ReadFromBytes(xmlRequest)
    IN  /\ doc.err = Nil
        /\ Root(doc.child) # NoElement
        /\ \E i \in 1..Len(Root(doc.child).attrs) :
              Root(doc.child).attrs[i].key = "Id" /\ Root(doc.child).attrs[i].value # <<>>

RootLacksId(xmlRequest) ==
    LET doc == ReadFromBytes(xmlRequest)
    IN  doc.err = Nil /\ Root(doc.child) # NoElement /\ ~RootHasId(xmlRequest)

\* C7: signXML on a document whose root has no Id attribute, or an empty one, returns
\* an error and no bytes without having canonicalized, digested or signed anything;
\* every signXML that returns an error returns no bytes; and GetResponse with
\* sign = true on a payload that signXML rejects posts no HTTP request.
SignFailsBeforeCrypto ==
    \A k \in 1..Len(last) :
       /\ last[k].op = "signXML" =>
             /\ RootLacksId(last[k].xmlRequest) =>
                   /\ last[k].res.err = "no Id attribute found in the root element"
                   /\ last[k].res.output = <<>>
                   /\ last[k].res.steps = <<>>
             /\ last[k].res.err # Nil => last[k].res.output = <<>>
             /\ last[k].res.err = Nil => last[k].res.output # <<>>
       /\ last[k].op = "GetResponse" /\ last[k].sign /\ signXML(entity, last[k].xmlRequest).err # Nil
             => /\ last[k].res.posted = <<>>
                /\ last[k].res.err = "failed to sign XML"
                /\ last[k].res.body = NilBody

\* GetResponse asked to sign a payload without Id
SignRefusedNothingPosted ==
    /\ Len(last) = 1
    /\ last[1].op = "GetResponse" /\ last[1].sign
    /\ RootLacksId(last[1].xmlRequest)
    /\ last[1].net.transport = "ok" /\ last[1].net.status = 200
    /\ last[1].res.posted = <<>>

\* the child elements of el that have that tag
ChildElements(el, tag) == SelectSeq(el.child, LAMBDA n : n.kind = "element" /\ n.tag = tag)

RECURSIVE ElementAt(_, _)
\* the element reached from el through the first children with the tags of path
ElementAt(el, path) ==
    IF path = <<>> THEN el
    ELSE LET c == ChildElements(el, Head(path))
         IN  IF c = <<>> THEN NoElement ELSE ElementAt(c[1], Tail(path))

\* the character data of an element
TextOf(el) == IF el = NoElement \/ el.child = <<>> THEN <<>> ELSE el.child[1].data

\* the root element of a serialized document
RootOf(xml) == Root(ReadFromBytes(xml).child)

\* the last child of the root element of a serialized document
LastChildOfRoot(xml) ==
    IF RootOf(xml) = NoElement \/ RootOf(xml).child = <<>> THEN NoElement
    ELSE RootOf(xml).child[Len(RootOf(xml).child)]

\* the serialized document without the last child of its root element
WithoutLastChildOfRoot(xml) ==
    LET child == ReadFromBytes(xml).child
        at    == {i \in 1..Len(child) : child[i].kind = "element"}
        root  == CHOOSE i \in at : \A j \in at : i <= j
    IN  WriteNodes([child EXCEPT ![root] =
                       [@ EXCEPT !.child = SubSeq(@, 1, Len(@) - 1)]], FALSE)

\* base64 of the SHA-1 of the exclusive canonical form of a serialized document
DigestOf(xml) == Base64Encode(sha1Sum(Render(doc14n(xml).bytes)))

\* the Signature that signXML added has the digest of the rest of the output and
\* refers to the Id of the root
SignatureCoversRest(xmlRequest, output) ==
    LET signature == LastChildOfRoot(output)
        reference == ElementAt(signature, <<"SignedInfo", "Reference">>)
    IN  /\ signature # NoElement
        /\ signature.kind = "element" /\ signature.tag = "Signature"
        /\ doc14n(WithoutLastChildOfRoot(output)).err = Nil
        /\ TextOf(ElementAt(reference, <<"DigestValue">>)) = DigestOf(WithoutLastChildOfRoot(output))
        /\ reference # NoElement
        /\ SelectAttrValue(reference, "URI", <<>>)
              = <<"#">> \o SelectAttrValue(RootOf(xmlRequest), "Id", <<>>)
        /\ SelectAttrValue(RootOf(output), "Id", <<>>)
              = SelectAttrValue(RootOf(xmlRequest), "Id", <<>>)

\* the calls of signXML that returned no error
SignedCalls == {k \in 1..Len(last) : last[k].op = "signXML" /\ last[k].res.err = Nil}

\* C8 as stated: for every document that signXML signs successfully the output has
\* exactly one Signature element, it is the last child of the root, the digest of the
\* output without it (exclusive C14N, SHA-1, base64) is the DigestValue in SignedInfo,
\* and the Reference URI is '#' followed by the Id of the root.
SignedOutputHasOneSignature ==
    \A k \in SignedCalls :
       /\ Len(ChildElements(RootOf(last[k].res.output), "Signature")) = 1
       /\ SignatureCoversRest(last[k].xmlRequest, last[k].res.output)

\* C8: for every document that signXML signs successfully the output has exactly one
\* Signature element more than the input, the added one is the last child of the root,
\* the digest of the output without it (exclusive C14N, SHA-1, base64) is the
\* DigestValue in its SignedInfo, and its Reference URI is '#' followed by the Id of
\* the root.
SignedOutputHasOneMoreSignature ==
    \A k \in SignedCalls :
       /\ Len(ChildElements(RootOf(last[k].res.output), "Signature"))
             = Len(ChildElements(RootOf(last[k].xmlRequest), "Signature")) + 1
       /\ SignatureCoversRest(last[k].xmlRequest, last[k].res.output)

\* a document with a declaration, comments and white space has been signed
SignedVerboseDocument ==
    /\ SignedCalls # {}
    /\ \E k \in SignedCalls :
          /\ last[k].xmlRequest = DocVerbose
          /\ last[k].res.steps = <<"c14n", "digest", "c14n", "digest", "rsa">>
          /\ LastChildOfRoot(last[k].res.output).tag = "Signature"

(***************************************************************************)
(* part_011: invoices                                                      *)
(***************************************************************************)
\* PaymentMethod.IsValid
PaymentMethods == {"G", "K", "O", "T", "C"}

ZeroAmount == <<"0", ".", "0", "0">>

\* a slice of rows: nil, or the rows it holds
NilRows == [nil |-> TRUE, rows |-> <<>>]

Rows(rs) == [nil |-> FALSE, rows |-> rs]

\* an interface{} value: a string, or an int written in decimal
StringValue(s) == [type |-> "string", value |-> s]

IntValue(digits) == [type |-> "int", value |-> digits]

\* a nil *PdvType, *PorezNaPotrosnjuType, *OstaliPoreziType or *NaknadeType
NilTaxes == [nil |-> TRUE, items |-> <<>>]

\* what a loop over rows returns: the error of the first row that has one, or the items
FirstError(checked) ==
    With({i \in 1..Len(checked) : checked[i].err # Nil}, LAMBDA failed :
        IF failed # {}
        THEN [err |-> checked[CHOOSE i \in failed : \A j \in failed : i <= j].err,
              value |-> NilTaxes]
        ELSE [err |-> Nil,
              value |-> [nil |-> FALSE, items |-> [i \in 1..Len(checked) |-> checked[i].item]]])

\* the body of the loop of newPdv and of newPNP on one row: [err, item]
PorezRow(v) ==
    IF Len(v) # 3
    THEN [err |-> "each inner array must contain exactly three elements", item |-> <<>>]
    ELSE IF v[1].type # "string"
    THEN [err |-> "the first element of each inner array must be an int (tax rate)", item |-> <<>>]
    ELSE IF v[2].type # "string"
    THEN [err |-> "the second element of each inner array must be a string (tax base)", item |-> <<>>]
    ELSE IF ~IsValidCurrencyFormat(v[2].value)
    THEN [err |-> "the second element of each inner array must be a valid currency format (tax base)",
          item |-> <<>>]
    ELSE IF v[3].type # "string"
    THEN [err |-> "the third element of each inner array must be a string (tax amount)", item |-> <<>>]
    ELSE IF ~IsValidCurrencyFormat(v[3].value)
    THEN [err |-> "the third element of each inner array must be a valid currency format (tax amount)",
          item |-> <<>>]
    ELSE [err |-> Nil, item |-> [Stopa |-> v[1].value, Osnovica |-> v[2].value, Iznos |-> v[3].value]]

\* a newPdv that checks the number of elements and their type only
newPdvFormatUnchecked(values) ==
    FirstError(<<>> \o [i \in 1..Len(values) |->
        IF Len(values[i]) # 3
        THEN [err |-> "each inner array must contain exactly three elements", item |-> <<>>]
        ELSE IF \E j \in 1..3 : values[i][j].type # "string"
        THEN [err |-> "each element of each inner array must be a string", item |-> <<>>]
        ELSE [err |-> Nil, item |-> [Stopa |-> values[i][1].value, Osnovica |-> values[i][2].value,
                                     Iznos |-> values[i][3].value]]])

\* newPdv(values): [err, value]
newPdv(values) == FirstError(<<>> \o [i \in 1..Len(values) |-> PorezRow(values[i])])

\* newPNP(values): [err, value]
newPNP(values) == FirstError(<<>> \o [i \in 1..Len(values) |-> PorezRow(values[i])])

\* the body of the loop of otherTaxes on one row: [err, item]
PorezOstaloRow(v) ==
    IF Len(v) # 4
    THEN [err |-> "each inner array must contain exactly four elements", item |-> <<>>]
    ELSE IF v[1].type # "string"
    THEN [err |-> "the first element of each inner array must be a string (name)", item |-> <<>>]
    ELSE IF v[2].type # "string"
    THEN [err |-> "the second element of each inner array must be an int (rate)", item |-> <<>>]
    ELSE IF v[3].type # "string"
    THEN [err |-> "the third element of each inner array must be a string (base)", item |-> <<>>]
    ELSE IF ~IsValidCurrencyFormat(v[3].value)
    THEN [err |-> "the third element of each inner array must be a valid currency format (base)",
          item |-> <<>>]
    ELSE IF v[4].type # "string"
    THEN [err |-> "the fourth element of each inner array must be a string (amount)", item |-> <<>>]
    ELSE IF ~IsValidCurrencyFormat(v[4].value)
    THEN [err |-> "the fourth element of each inner array must be a valid currency format (amount)",
          item |-> <<>>]
    ELSE [err |-> Nil, item |-> [Naziv |-> v[1].value, Stopa |-> v[2].value,
                                 Osnovica |-> v[3].value, Iznos |-> v[4].value]]

\* otherTaxes(values): [err, value]
otherTaxes(values) == FirstError(<<>> \o [i \in 1..Len(values) |-> PorezOstaloRow(values[i])])

\* the body of the loop of genNaknade on one row of strings: [err, item]
NaknadaRow(v) ==
    IF Len(v) # 2
    THEN [err |-> "each inner array must contain exactly two elements", item |-> <<>>]
    ELSE IF ~IsValidCurrencyFormat(v[2])
    THEN [err |-> "the second element of each inner array must be a valid currency format (fee amount)",
          item |-> <<>>]
    ELSE [err |-> Nil, item |-> [NazivN |-> v[1], IznosN |-> v[2]]]

\* genNaknade(values): [err, value]
genNaknade(values) == FirstError(<<>> \o [i \in 1..Len(values) |-> NaknadaRow(values[i])])

\* FiskalEntity.NewCISInvoice(...), random being the state of rand.Reader:
\* [invoice, zki, err, steps], steps naming the signing calls that were made
NewCISInvoice(fe, dateTime, invoiceNumber, registerDeviceID, pdvValues, pnpValues, ostaliPorValues, iznosOslobPdv, iznosMarza, iznosNePodlOpor, naknadeValues, iznosUkupno, paymentMethod, oibOper, random) ==
    With(IF pdvValues.nil THEN [err |-> Nil, value |-> NilTaxes] ELSE newPdv(pdvValues.rows),
         LAMBDA pdv :
    With(IF pnpValues.nil THEN [err |-> Nil, value |-> NilTaxes] ELSE newPNP(pnpValues.rows),
         LAMBDA pnp :
    With(IF ostaliPorValues.nil THEN [err |-> Nil, value |-> NilTaxes]
         ELSE otherTaxes(ostaliPorValues.rows), LAMBDA ostaliPor :
    With(IF naknadeValues.nil THEN [err |-> Nil, value |-> NilTaxes]
         ELSE genNaknade(naknadeValues.rows), LAMBDA naknade :
    LET formattedDate == FormatTime(dateTime, <<"T">>)
        oznSlijed == IF fe.centralizedInvoiceNumber THEN <<"P">> ELSE <<"N">>
        Blank(amount) == IF amount = ZeroAmount THEN <<>> ELSE amount
        brRac == [BrOznRac |-> invoiceNumber, OznPosPr |-> fe.locationID,
                  OznNapUr |-> registerDeviceID]
        gen == GenerateZKI(fe, dateTime, invoiceNumber, registerDeviceID, iznosUkupno, random)
        Fail(msg) == [invoice |-> NilInvoice, zki |-> <<>>, err |-> msg, steps |-> <<>>]
    IN  IF ~IsValidCurrencyFormat(iznosUkupno)
        THEN Fail("the total amount must be a valid currency format")
        ELSE IF ~IsValidCurrencyFormat(iznosOslobPdv)
        THEN Fail("the amount exempt from VAT must be a valid currency format")
        ELSE IF ~IsValidCurrencyFormat(iznosMarza)
        THEN Fail("the margin amount must be a valid currency format")
        ELSE IF ~IsValidCurrencyFormat(iznosNePodlOpor)
        THEN Fail("the amount not subject to taxation must be a valid currency format")
        ELSE IF pdv.err # Nil THEN Fail(pdv.err)
        ELSE IF pnp.err # Nil THEN Fail(pnp.err)
        ELSE IF ostaliPor.err # Nil THEN Fail(ostaliPor.err)
        ELSE IF naknade.err # Nil THEN Fail(naknade.err)
        ELSE IF paymentMethod \notin PaymentMethods
        THEN Fail("PaymentMethod must be one of the following values")
        ELSE IF gen.err # Nil
        THEN [invoice |-> NilInvoice, zki |-> <<>>, err |-> gen.err,
              steps |-> <<"GenerateZKI", "SignPKCS1v15">>]
        ELSE [invoice |->
                 [Oib |-> fe.oib, USustPdv |-> fe.sustPDV, DatVrijeme |-> formattedDate,
                  OznSlijed |-> oznSlijed, BrRac |-> brRac,
                  Pdv |-> pdv.value, Pnp |-> pnp.value, OstaliPor |-> ostaliPor.value,
                  Naknade |-> naknade.value,
                  IznosOslobPdv |-> Blank(iznosOslobPdv), IznosMarza |-> Blank(iznosMarza),
                  IznosNePodlOpor |-> Blank(iznosNePodlOpor), IznosUkupno |-> iznosUkupno,
                  NacinPlac |-> <<paymentMethod>>, OibOper |-> oibOper, ZastKod |-> gen.zki,
                  NakDost |-> FALSE, SpecNamj |-> <<>>, pointerToEntity |-> fe,
                  oldEntityForOldZKI |-> NoEntity],
              zki |-> gen.zki, err |-> Nil, steps |-> <<"GenerateZKI", "SignPKCS1v15">>]))))

\* the ZKI of the stored fields of an invoice under the key of ent: [zki, err]
RecomputeZKI(ent, inv, invoiceTime, random) ==
    GenerateZKI(ent, invoiceTime, inv.BrRac.BrOznRac, inv.BrRac.OznNapUr, inv.IznosUkupno, random)

\* RacunType.SetLateDelivery(ZKI): [invoice (as the call leaves it), err]
SetLateDelivery(inv, ZKI, random) ==
    With([inv EXCEPT !.ZastKod = ZKI, !.NakDost = TRUE], LAMBDA set :
    With(ParseTime(set.DatVrijeme), LAMBDA invoiceTime :
    With(RecomputeZKI(set.pointerToEntity, set, invoiceTime.t, random), LAMBDA calculatedZKI :
        IF ~invoiceTime.ok THEN [invoice |-> set, err |-> "failed to parse date"]
        ELSE IF calculatedZKI.err # Nil THEN [invoice |-> set, err |-> "failed to generate ZKI"]
        ELSE IF calculatedZKI.zki # set.ZastKod THEN [invoice |-> set, err |-> "ZKI is not valid"]
        ELSE [invoice |-> set, err |-> Nil])))

\* an IhaveZKIwithExpiredCertificateEdgeCase that validates under the key of the
\* entity that issues the invoice
IhaveZKIValidatedUnderCurrentKey(inv, oldZKI, p12, t, ub, random) ==
    With([inv EXCEPT !.ZastKod = oldZKI, !.NakDost = TRUE], LAMBDA set :
    With(set.pointerToEntity, LAMBDA cur :
    With(NewFiskalEntity(cur.oib, cur.sustPDV, cur.locationID, cur.centralizedInvoiceNumber,
                         cur.demoMode, FALSE, p12, t, ub), LAMBDA made :
    With([set EXCEPT !.oldEntityForOldZKI = made.entity], LAMBDA old :
    With(ParseTime(old.DatVrijeme), LAMBDA invoiceTime :
    With(RecomputeZKI(cur, old, invoiceTime.t, random), LAMBDA calculatedZKI :
        IF made.err # Nil THEN [invoice |-> set, err |-> "failed to create FiskalEntity"]
        ELSE IF ~invoiceTime.ok THEN [invoice |-> old, err |-> "failed to parse date"]
        ELSE IF calculatedZKI.err # Nil THEN [invoice |-> old, err |-> "failed to generate ZKI"]
        ELSE IF calculatedZKI.zki # old.ZastKod THEN [invoice |-> old, err |-> "ZKI is not valid"]
        ELSE [invoice |-> old, err |-> Nil]))))))

\* IhaveZKIwithExpiredCertificateEdgeCase, had it loaded the old certificate into the
\* certificate manager of the issuing entity as well
IhaveZKILoadingIntoIssuer(inv, oldZKI, p12, t, ub, random) ==
    With([inv EXCEPT !.ZastKod = oldZKI, !.NakDost = TRUE], LAMBDA set :
    With(set.pointerToEntity, LAMBDA cur :
    With(NewFiskalEntity(cur.oib, cur.sustPDV, cur.locationID, cur.centralizedInvoiceNumber,
                         cur.demoMode, FALSE, p12, t, ub), LAMBDA made :
    With([set EXCEPT !.oldEntityForOldZKI = made.entity,
                     !.pointerToEntity.cert = made.entity.cert], LAMBDA old :
    With(ParseTime(old.DatVrijeme), LAMBDA invoiceTime :
    With(RecomputeZKI(old.oldEntityForOldZKI, old, invoiceTime.t, random), LAMBDA calculatedZKI :
        IF made.err # Nil THEN [invoice |-> set, err |-> "failed to create FiskalEntity"]
        ELSE IF ~invoiceTime.ok THEN [invoice |-> old, err |-> "failed to parse date"]
        ELSE IF calculatedZKI.err # Nil THEN [invoice |-> old, err |-> "failed to generate ZKI"]
        ELSE IF calculatedZKI.zki # old.ZastKod THEN [invoice |-> old, err |-> "ZKI is not valid"]
        ELSE [invoice |-> old, err |-> Nil]))))))

\* RacunType.IhaveZKIwithExpiredCertificateEdgeCase(oldZKI, oldCertPath, oldCertPassword)
\* at time t, oldCertPath naming the container p12: [invoice (as the call leaves it), err]
IhaveZKIwithExpiredCertificateEdgeCase(inv, oldZKI, p12, t, ub, random) ==
    With([inv EXCEPT !.ZastKod = oldZKI, !.NakDost = TRUE], LAMBDA set :
    With(set.pointerToEntity, LAMBDA cur :
    With(NewFiskalEntity(cur.oib, cur.sustPDV, cur.locationID, cur.centralizedInvoiceNumber,
                         cur.demoMode, FALSE, p12, t, ub), LAMBDA made :
    With([set EXCEPT !.oldEntityForOldZKI = made.entity], LAMBDA old :
    With(ParseTime(old.DatVrijeme), LAMBDA invoiceTime :
    With(RecomputeZKI(old.oldEntityForOldZKI, old, invoiceTime.t, random), LAMBDA calculatedZKI :
        IF made.err # Nil THEN [invoice |-> set, err |-> "failed to create FiskalEntity"]
        ELSE IF ~invoiceTime.ok THEN [invoice |-> old, err |-> "failed to parse date"]
        ELSE IF calculatedZKI.err # Nil THEN [invoice |-> old, err |-> "failed to generate ZKI"]
        ELSE IF calculatedZKI.zki # old.ZastKod THEN [invoice |-> old, err |-> "ZKI is not valid"]
        ELSE [invoice |-> old, err |-> Nil]))))))

RECURSIVE FormatHex(_)
\* fmt.Sprintf("%x", n)
FormatHex(n) ==
    IF n < 16 THEN <<HexDigits[n + 1]>> ELSE FormatHex(n \div 16) \o <<HexDigits[(n % 16) + 1]>>

\* generateUniqueID() when the clock reads t
generateUniqueID(t) == FormatHex(t)

\* uuid.New().String() when rand.Reader is in state random
uuidNew(random) ==
    [i \in 1..36 |-> IF i \in {9, 14, 19, 24} THEN "-"
                     ELSE IF i = 15 THEN "4" ELSE HexDigits[(random % 16) + 1]]

\* time.Now() when the clock reads t hours: the hours counted from 01.06.2024 00:00:00
TimeNow(t) == Time(2024, 6, 1 + (t \div 24), t % 24, 0, 0, 0, "Local")

\* newFiskalHeader() when the clock reads t
newFiskalHeader(random, t) ==
    [IdPoruke |-> uuidNew(random), DatumVrijeme |-> FormatTime(TimeNow(t), <<"T">>)]

\* the line break and indentation xml.MarshalIndent(v, "", " ") writes at a depth
Indent(depth) == TextTok(<<"\n">> \o [i \in 1..depth |-> " "])

\* an element that holds text only, as xml.MarshalIndent writes it
Field(depth, name, text) ==
    <<Indent(depth), StartTag("tns", name, <<>>)>>
    \o (IF text = <<>> THEN <<>> ELSE <<TextTok(text)>>) \o <<EndTag("tns", name)>>

\* a field tagged omitempty
OmitEmpty(depth, name, text) == IF text = <<>> THEN <<>> ELSE Field(depth, name, text)

FormatBool(b) == IF b THEN <<"t", "r", "u", "e">> ELSE <<"f", "a", "l", "s", "e">>

\* xml.MarshalIndent(zahtjev, "", " ") of a RacunZahtjev whose invoice has no Pdv, Pnp,
\* OstaliPor, Naknade, ParagonBrRac, PrateciDokument, PromijenjeniNacinPlac, Napojnica
MarshalRacunZahtjev(zahtjev) ==
    LET r == zahtjev.Racun
    IN  <<StartTag("tns", "RacunZahtjev",
              <<Attr("xmlns", "tns", zahtjev.Xmlns)>>
              \o (IF zahtjev.IdAttr = <<>> THEN <<>> ELSE <<Attr("", "Id", zahtjev.IdAttr)>>))>>
        \o <<Indent(1), StartTag("tns", "Zaglavlje", <<>>)>>
        \o Field(2, "IdPoruke", zahtjev.Zaglavlje.IdPoruke)
        \o Field(2, "DatumVrijeme", zahtjev.Zaglavlje.DatumVrijeme)
        \o <<Indent(1), EndTag("tns", "Zaglavlje")>>
        \o <<Indent(1), StartTag("tns", "Racun", <<>>)>>
        \o Field(2, "Oib", r.Oib) \o Field(2, "USustPdv", FormatBool(r.USustPdv))
        \o Field(2, "DatVrijeme", r.DatVrijeme) \o Field(2, "OznSlijed", r.OznSlijed)
        \o <<Indent(2), StartTag("tns", "BrRac", <<>>)>>
        \o Field(3, "BrOznRac", FormatUint(r.BrRac.BrOznRac))
        \o Field(3, "OznPosPr", r.BrRac.OznPosPr)
        \o Field(3, "OznNapUr", FormatUint(r.BrRac.OznNapUr))
        \o <<Indent(2), EndTag("tns", "BrRac")>>
        \o OmitEmpty(2, "IznosOslobPdv", r.IznosOslobPdv)
        \o OmitEmpty(2, "IznosMarza", r.IznosMarza)
        \o OmitEmpty(2, "IznosNePodlOpor", r.IznosNePodlOpor)
        \o Field(2, "IznosUkupno", r.IznosUkupno) \o Field(2, "NacinPlac", r.NacinPlac)
        \o Field(2, "OibOper", r.OibOper) \o Field(2, "ZastKod", r.ZastKod)
        \o Field(2, "NakDost", FormatBool(r.NakDost))
        \o <<Indent(1), EndTag("tns", "Racun"), Indent(0), EndTag("tns", "RacunZahtjev")>>

NilZaglavlje == [nilZaglavlje |-> TRUE]

NilGreske == [nilGreske |-> TRUE]

\* xml.Unmarshal(body, &racunOdgovor): [err, value]
UnmarshalRacunOdgovor(body) ==
    With(ReadFromBytes(body), LAMBDA doc :
    With(Root(doc.child), LAMBDA root :
    With(ElementAt(root, <<"Zaglavlje">>), LAMBDA zaglavlje :
    With(ElementAt(root, <<"Greske">>), LAMBDA greske :
    With(ChildElements(greske, "Greska"), LAMBDA greska :
    With([Zaglavlje |-> NilZaglavlje, Jir |-> <<>>, Greske |-> NilGreske], LAMBDA zero :
        IF doc.err # Nil \/ root = NoElement THEN [err |-> "XML syntax error", value |-> zero]
        ELSE IF root.tag # "RacunOdgovor"
        THEN [err |-> "expected element type <RacunOdgovor>", value |-> zero]
        ELSE [err |-> Nil,
              value |->
                 [Zaglavlje |->
                     IF zaglavlje = NoElement THEN NilZaglavlje
                     ELSE [IdPoruke |-> TextOf(ElementAt(zaglavlje, <<"IdPoruke">>)),
                           DatumVrijeme |-> TextOf(ElementAt(zaglavlje, <<"DatumVrijeme">>))],
                  Jir |-> TextOf(ElementAt(root, <<"Jir">>)),
                  Greske |->
                     IF greske = NoElement THEN NilGreske
                     ELSE [Greska |->
                              [i \in 1..Len(greska) |->
                                  [SifraGreske |-> TextOf(ElementAt(greska[i], <<"SifraGreske">>)),
                                   PorukaGreske |->
                                      TextOf(ElementAt(greska[i], <<"PorukaGreske">>))]]]]]))))))

RECURSIVE Join(_, _)
\* strings.Join(elems, sep)
Join(elems, sep) ==
    IF elems = <<>> THEN <<>>
    ELSE IF Len(elems) = 1 THEN elems[1] ELSE elems[1] \o sep \o Join(Tail(elems), sep)

\* no call of GetResponse
NoComm == [called |-> FALSE]

\* what InvoiceRequest hands to its caller: the JIR, the ZKI, the error with the error
\* it wraps (cause) or the messages it aggregates, what GetResponse returned to it
\* (comm), and whether the call ended in a run-time panic instead of returning
Outcome(jir, zki, err, cause, messages, comm, panics) ==
    [jir |-> jir, zki |-> zki, err |-> err, cause |-> cause, messages |-> messages,
     comm |-> comm, panics |-> panics]

NilDereference == "panic: invalid memory address or nil pointer dereference"

\* InvoiceRequest from the construction of the request on
SendInvoice(inv, random, t, net) ==
    With([Zaglavlje |-> newFiskalHeader(random, t), Racun |-> inv, Xmlns |-> F73,
          IdAttr |-> generateUniqueID(t)], LAMBDA zahtjev :
    With(MarshalRacunZahtjev(zahtjev), LAMBDA xmlData :
    With(GetResponse(inv.pointerToEntity, xmlData, TRUE, net), LAMBDA comm :
    With(UnmarshalRacunOdgovor(comm.body.xml), LAMBDA un :
    With(un.value, LAMBDA racunOdgovor :
    With([i \in 1..Len(racunOdgovor.Greske.Greska) |->
             racunOdgovor.Greske.Greska[i].SifraGreske \o <<":", " ">>
             \o racunOdgovor.Greske.Greska[i].PorukaGreske], LAMBDA errorMessages :
    LET Return(jir, err) == Outcome(jir, inv.ZastKod, err, Nil, <<>>, comm, FALSE)
        Panic == Outcome(<<>>, <<>>, NilDereference, Nil, <<>>, comm, TRUE)
    IN  IF comm.err # Nil
        THEN Outcome(<<>>, inv.ZastKod, "failed to make request", comm.err, <<>>, comm, FALSE)
        ELSE IF un.err # Nil THEN Return(<<>>, "failed to unmarshal XML response")
        ELSE IF racunOdgovor.Zaglavlje = NilZaglavlje THEN Panic
        ELSE IF zahtjev.Zaglavlje.IdPoruke # racunOdgovor.Zaglavlje.IdPoruke
        THEN Return(<<>>, "IdPoruke mismatch")
        ELSE IF comm.status # 200
        THEN IF racunOdgovor.Greske = NilGreske THEN Panic
             ELSE IF Len(errorMessages) > 0
             THEN Outcome(<<>>, inv.ZastKod, "errors in response", Nil,
                          Join(errorMessages, <<";", " ">>), comm, FALSE)
             ELSE Return(<<>>, "unexpected error")
        ELSE IF ValidateJIR(racunOdgovor.Jir) THEN Return(racunOdgovor.Jir, Nil)
        ELSE Return(<<>>, "JIR is not valid")))))))

\* an InvoiceRequest that checks nothing but the invoice pointer before sending
InvoiceRequestUnchecked(inv, random, t, net) ==
    IF inv = NilInvoice THEN Outcome(<<>>, <<>>, "invoice is nil", Nil, <<>>, NoComm, FALSE)
    ELSE SendInvoice(inv, random, t, net)

\* InvoiceRequest, had it sent the request through the entity it checks the ZKI with
InvoiceRequestThroughChkEntity(inv, random, t, net) ==
    With(ParseTime(inv.DatVrijeme), LAMBDA invoiceTime :
    With(IF inv.oldEntityForOldZKI # NoEntity THEN inv.oldEntityForOldZKI
         ELSE inv.pointerToEntity, LAMBDA chkEntity :
    With(RecomputeZKI(chkEntity, inv, invoiceTime.t, random), LAMBDA calculatedZKI :
    LET Return(zki, err) == Outcome(<<>>, zki, err, Nil, <<>>, NoComm, FALSE)
    IN  IF inv = NilInvoice THEN Return(<<>>, "invoice is nil")
        ELSE IF inv.SpecNamj # <<>> THEN Return(<<>>, "invoice SpecNamj must be empty")
        ELSE IF inv.ZastKod = <<>>
        THEN Return(<<>>, "invoice ZKI (Zastitni Kod Izdavatelja) must be set")
        ELSE IF ~invoiceTime.ok THEN Return(inv.ZastKod, "failed to parse date")
        ELSE IF calculatedZKI.err # Nil THEN Return(inv.ZastKod, "failed to check ZKI")
        ELSE IF calculatedZKI.zki # inv.ZastKod THEN Return(inv.ZastKod, "ZKI is not valid")
        ELSE SendInvoice([inv EXCEPT !.pointerToEntity = chkEntity], random, t, net))))

\* RacunType.InvoiceRequest() when the clock reads t, rand.Reader is in state random
\* and the network and the CIS service behave as net says
InvoiceRequest(inv, random, t, net) ==
    With(ParseTime(inv.DatVrijeme), LAMBDA invoiceTime :
    With(IF inv.oldEntityForOldZKI # NoEntity THEN inv.oldEntityForOldZKI
         ELSE inv.pointerToEntity, LAMBDA chkEntity :
    With(RecomputeZKI(chkEntity, inv, invoiceTime.t, random), LAMBDA calculatedZKI :
    LET Return(zki, err) == Outcome(<<>>, zki, err, Nil, <<>>, NoComm, FALSE)
    IN  IF inv = NilInvoice THEN Return(<<>>, "invoice is nil")
        ELSE IF inv.SpecNamj # <<>> THEN Return(<<>>, "invoice SpecNamj must be empty")
        ELSE IF inv.ZastKod = <<>>
        THEN Return(<<>>, "invoice ZKI (Zastitni Kod Izdavatelja) must be set")
        ELSE IF ~invoiceTime.ok THEN Return(inv.ZastKod, "failed to parse date")
        ELSE IF calculatedZKI.err # Nil THEN Return(inv.ZastKod, "failed to check ZKI")
        ELSE IF calculatedZKI.zki # inv.ZastKod THEN Return(inv.ZastKod, "ZKI is not valid")
        ELSE SendInvoice(inv, random, t, net))))

(***************************************************************************)
(* Spec: an application that creates an invoice, sets its ZKI and sends it *)
(***************************************************************************)
\* an element of a response that holds text only
Answer(name, text) ==
    <<StartTag("tns", name, <<>>)>> \o (IF text = <<>> THEN <<>> ELSE <<TextTok(text)>>)
    \o <<EndTag("tns", name)>>

\* <tns:RacunOdgovor>...</tns:RacunOdgovor>
RacunOdgovorXML(content) ==
    <<StartTag("tns", "RacunOdgovor", <<>>)>> \o content \o <<EndTag("tns", "RacunOdgovor")>>

ZaglavljeXML(idPoruke) ==
    <<StartTag("tns", "Zaglavlje", <<>>)>> \o Answer("IdPoruke", idPoruke)
    \o Answer("DatumVrijeme", FormatTime(T1, <<"T">>)) \o <<EndTag("tns", "Zaglavlje")>>

\* <tns:Greske> with the errors s005 and s006
GreskeXML ==
    <<StartTag("tns", "Greske", <<>>), StartTag("tns", "Greska", <<>>)>>
    \o Answer("SifraGreske", <<"s", "0", "0", "5">>) \o Answer("PorukaGreske", <<"O", "I", "B">>)
    \o <<EndTag("tns", "Greska"), StartTag("tns", "Greska", <<>>)>>
    \o Answer("SifraGreske", <<"s", "0", "0", "6">>) \o Answer("PorukaGreske", <<"Z", "K", "I">>)
    \o <<EndTag("tns", "Greska"), EndTag("tns", "Greske")>>

\* a JIR of the format ValidateJIR checks, and one with a capital letter
JirGood == [i \in 1..36 |-> IF i \in {9, 14, 19, 24} THEN "-" ELSE "7"]

JirBad == [JirGood EXCEPT ![1] = "A"]

\* what the network and the CIS service do with an invoice request
InvoiceNetworks ==
    {Net("fail", TRUE, 0, TRUE, SignedContent("none", <<>>)),
     Net("ok", FALSE, 200, TRUE, SignedContent("none", <<>>)),
     Net("ok", TRUE, 200, FALSE, SignedContent("none", <<>>)),
     Net("ok", TRUE, 200, TRUE, SignedContent("valid", EchoResponse)),
     Net("ok", TRUE, 200, TRUE,
         SignedContent("valid", RacunOdgovorXML(Answer("Jir", JirGood)))),
     Net("ok", TRUE, 200, TRUE,
         SignedContent("valid", RacunOdgovorXML(ZaglavljeXML(uuidNew(0)) \o Answer("Jir", JirBad)))),
     Net("ok", TRUE, 200, TRUE,
         SignedContent("valid", RacunOdgovorXML(ZaglavljeXML(uuidNew(0)) \o GreskeXML))),
     Net("ok", TRUE, 500, TRUE,
         SignedContent("valid", RacunOdgovorXML(ZaglavljeXML(uuidNew(0)) \o GreskeXML))),
     Net("ok", TRUE, 500, TRUE,
         SignedContent("valid", RacunOdgovorXML(ZaglavljeXML(uuidNew(0)))))}
    \cup {Net("ok", TRUE, 200, TRUE,
              SignedContent(sg, RacunOdgovorXML(ZaglavljeXML(uuidNew(0)) \o Answer("Jir", JirGood)))) :
             sg \in {"valid", "invalid", "none"}}

\* the taxpayer of OIB1 at one location, holding bundle A or bundle B
IssuingEntities == {e \in Entities : e.oib = OIB1 /\ e.locationID = <<"A">>}

UnreadableFile == [readable |-> FALSE, decodes |-> FALSE, blocks |-> <<>>]

OldCertificates == {P12A, P12B, P12C, UnreadableFile}

Amount9000 == <<"9", "0", ".", "0", "0">>

Amount9001 == <<"9", "0", ".", "0", "1">>

\* the ZKIs the application has kept: those of the invoice of T0 under the issuing
\* entities, and none
StoredZKIs == {GenerateZKI(e, T0, 1, 1, Amount9000, 0).zki : e \in IssuingEntities} \cup {<<>>}

\* the fields an application can write without a method of the library
Edits ==
    {[field |-> "SpecNamj", value |-> <<"x">>], [field |-> "ZastKod", value |-> <<>>],
     [field |-> "DatVrijeme", value |-> <<"x">>], [field |-> "IznosUkupno", value |-> Amount9001]}

MaxCalls == 3

Init ==
    /\ entity \in IssuingEntities
    /\ invoice = NilInvoice
    /\ last = <<>>
    /\ saved = <<>>
    /\ certFS = <<>>
    /\ now = 50
    /\ manager = newCertManager
    /\ calls = 0

CallNewCISInvoice ==
    /\ calls < MaxCalls
    /\ \E iznosUkupno \in {Amount9000, <<"9", "0">>}, paymentMethod \in {"G", "X"},
          random \in RandomStates :
          \E r \in {NewCISInvoice(entity, T0, 1, 1, NilRows, NilRows, NilRows, ZeroAmount,
                                  ZeroAmount, ZeroAmount, NilRows, iznosUkupno, paymentMethod,
                                  OIB2, random)} :
             /\ last' = <<[op |-> "NewCISInvoice", iznosUkupno |-> iznosUkupno,
                           paymentMethod |-> paymentMethod, random |-> random,
                           before |-> invoice, res |-> r]>>
             /\ invoice' = IF r.err = Nil THEN r.invoice ELSE invoice
    /\ calls' = calls + 1
    /\ UNCHANGED <<manager, entity, saved, certFS, now>>

CallSetLateDelivery ==
    /\ calls < MaxCalls
    /\ invoice # NilInvoice
    /\ \E ZKI \in StoredZKIs, random \in RandomStates :
          \E r \in {SetLateDelivery(invoice, ZKI, random)} :
             /\ last' = <<[op |-> "SetLateDelivery", ZKI |-> ZKI, random |-> random,
                           before |-> invoice, res |-> r]>>
             /\ invoice' = r.invoice
    /\ calls' = calls + 1
    /\ UNCHANGED <<manager, entity, saved, certFS, now>>

CallIhaveZKIwithExpiredCertificateEdgeCase ==
    /\ calls < MaxCalls
    /\ invoice # NilInvoice
    /\ \E oldZKI \in StoredZKIs, p12 \in OldCertificates, random \in RandomStates :
          \E r \in {IhaveZKIwithExpiredCertificateEdgeCase(invoice, oldZKI, p12, now, 0, random)} :
             /\ last' = <<[op |-> "IhaveZKIwithExpiredCertificateEdgeCase", oldZKI |-> oldZKI,
                           p12 |-> p12, random |-> random, before |-> invoice, res |-> r]>>
             /\ invoice' = r.invoice
    /\ calls' = calls + 1
    /\ UNCHANGED <<manager, entity, saved, certFS, now>>

CallInvoiceRequest ==
    /\ calls < MaxCalls
    /\ \E random \in RandomStates, net \in InvoiceNetworks :
          last' = <<[op |-> "InvoiceRequest", random |-> random, net |-> net,
                     before |-> invoice, previous |-> last,
                     res |-> InvoiceRequest(invoice, random, now, net)]>>
    /\ calls' = calls + 1
    /\ UNCHANGED <<manager, entity, invoice, saved, certFS, now>>

\* the application writes an exported field of the invoice
EditInvoice ==
    /\ calls < MaxCalls
    /\ invoice # NilInvoice
    /\ \E e \in Edits :
          /\ invoice' = [invoice EXCEPT ![e.field] = e.value]
          /\ last' = <<[op |-> "edit", field |-> e.field, before |-> invoice]>>
    /\ calls' = calls + 1
    /\ UNCHANGED <<manager, entity, saved, certFS, now>>

Next ==
    \/ CallNewCISInvoice
    \/ CallSetLateDelivery
    \/ CallIhaveZKIwithExpiredCertificateEdgeCase
    \/ CallInvoiceRequest
    \/ EditInvoice

Spec == Init /\ [][Next]_vars

\* the calls of InvoiceRequest among the calls made
InvoiceRequests == {k \in 1..Len(last) : last[k].op = "InvoiceRequest"}

\* the entity NewFiskalEntity makes for the taxpayer of inv from the container p12
EntityHolding(inv, p12) ==
    LET cur == inv.pointerToEntity
    IN  NewFiskalEntity(cur.oib, cur.sustPDV, cur.locationID, cur.centralizedInvoiceNumber,
                        cur.demoMode, FALSE, p12, now, 0)

\* zki is the ZKI of the stored fields of inv under the key of ent, which is not the key
\* of the entity that issues inv
GeneratedUnderOtherKey(inv, zki, ent) ==
    /\ ent.cert.privateKey # inv.pointerToEntity.cert.privateKey
    /\ ParseTime(inv.DatVrijeme).ok
    /\ RecomputeZKI(ent, inv, ParseTime(inv.DatVrijeme).t, 0).err = Nil
    /\ zki = RecomputeZKI(ent, inv, ParseTime(inv.DatVrijeme).t, 0).zki

\* a call of IhaveZKIwithExpiredCertificateEdgeCase that names the bundle the ZKI was
\* generated under, the issuing entity holding another bundle
NamesOldBundle(c) ==
    /\ c.op = "IhaveZKIwithExpiredCertificateEdgeCase"
    /\ EntityHolding(c.before, c.p12).err = Nil
    /\ GeneratedUnderOtherKey(c.before, c.oldZKI, EntityHolding(c.before, c.p12).entity)

\* the ZKI an invoice stores was generated under another key than that of its issuing
\* entity, and no old entity is set
StoresZKIOfOtherKey(inv) ==
    /\ inv # NilInvoice
    /\ inv.SpecNamj = <<>>
    /\ inv.oldEntityForOldZKI = NoEntity
    /\ \E p12 \in OldCertificates :
          /\ EntityHolding(inv, p12).err = Nil
          /\ GeneratedUnderOtherKey(inv, inv.ZastKod, EntityHolding(inv, p12).entity)

\* C3: when the ZKI of an invoice was generated under bundle A and the issuing entity
\* holds another bundle B, IhaveZKIwithExpiredCertificateEdgeCase(zki, A) returns nil and
\* the InvoiceRequest that follows passes its local ZKI check, whereas SetLateDelivery
\* of that ZKI, and InvoiceRequest with no old entity set, fail with 'ZKI is not valid'.
OldZKIValidUnderOldBundleOnly ==
    \A k \in 1..Len(last) :
       LET c == last[k]
       IN  /\ NamesOldBundle(c) => c.res.err = Nil
           /\ (c.op = "InvoiceRequest" /\ c.previous # <<>>) =>
                 (NamesOldBundle(c.previous[1]) =>
                     /\ c.res.err # "ZKI is not valid"
                     /\ c.res.comm # NoComm)
           /\ (c.op = "SetLateDelivery" /\ c.ZKI # <<>>) =>
                 ((\E p12 \in OldCertificates :
                      /\ EntityHolding(c.before, p12).err = Nil
                      /\ GeneratedUnderOtherKey(c.before, c.ZKI,
                                                EntityHolding(c.before, p12).entity))
                   => c.res.err = "ZKI is not valid")
           /\ c.op = "InvoiceRequest" =>
                 (StoresZKIOfOtherKey(c.before) =>
                     /\ c.res.err = "ZKI is not valid"
                     /\ c.res.comm = NoComm)

\* the invoice of an entity that holds bundle B, its ZKI validated under bundle A, has
\* been sent
OldZKISentUnderNewBundle ==
    /\ Len(last) = 1
    /\ last[1].op = "InvoiceRequest"
    /\ last[1].previous # <<>>
    /\ NamesOldBundle(last[1].previous[1])
    /\ last[1].previous[1].p12 = P12A
    /\ entity.cert.publicCert.serial = 12
    /\ last[1].res.err = Nil
    /\ last[1].res.comm.posted # <<>>

\* the local checks of InvoiceRequest reject the invoice
LocallyRejected(inv, random) ==
    IF inv = NilInvoice THEN TRUE
    ELSE \/ inv.SpecNamj # <<>>
         \/ inv.ZastKod = <<>>
         \/ ~ParseTime(inv.DatVrijeme).ok
         \/ RecomputeZKI(IF inv.oldEntityForOldZKI # NoEntity THEN inv.oldEntityForOldZKI
                         ELSE inv.pointerToEntity,
                         inv, ParseTime(inv.DatVrijeme).t, random).zki # inv.ZastKod

\* C4: InvoiceRequest returns an error without calling GetResponse, so without signing
\* and without an HTTP request, whenever the invoice is nil, SpecNamj is not empty,
\* ZastKod is empty, DatVrijeme does not parse or the recomputed ZKI differs from
\* ZastKod; GetResponse is called only after all these checks have passed.
InvoiceCheckedBeforeSending ==
    \A k \in InvoiceRequests :
       LET c == last[k]
       IN  /\ LocallyRejected(c.before, c.random) =>
                 /\ c.res.err # Nil
                 /\ ~c.res.panics
                 /\ c.res.comm = NoComm
                 /\ c.res.jir = <<>>
           /\ c.res.comm # NoComm => ~LocallyRejected(c.before, c.random)

\* an invoice with a purpose written into SpecNamj has been handed to InvoiceRequest
\* while the service was ready to accept it
EditedInvoiceNotSent ==
    /\ Len(last) = 1
    /\ last[1].op = "InvoiceRequest"
    /\ last[1].before # NilInvoice
    /\ last[1].before.SpecNamj # <<>>
    /\ last[1].net.transport = "ok" /\ last[1].net.status = 200
    /\ last[1].res.err = "invoice SpecNamj must be empty"
    /\ last[1].res.comm = NoComm

\* the calls of InvoiceRequest that the service answered with a status other than 200
\* and a RacunOdgovor that lists errors
RejectedByCIS ==
    {k \in InvoiceRequests :
        /\ last[k].res.comm # NoComm
        /\ last[k].res.comm.posted # <<>>
        /\ last[k].net.transport = "ok" /\ last[k].net.readable /\ last[k].net.soap
        /\ last[k].net.status # 200
        /\ UnmarshalRacunOdgovor(last[k].net.content.xml).err = Nil
        /\ UnmarshalRacunOdgovor(last[k].net.content.xml).value.Greske # NilGreske
        /\ UnmarshalRacunOdgovor(last[k].net.content.xml).value.Greske.Greska # <<>>}

\* C5: when the CIS service answers with a status other than 200 and a parseable
\* RacunOdgovor that lists errors, InvoiceRequest returns an error that aggregates every
\* (SifraGreske: PorukaGreske) pair of the list, so it differs from a transport failure.
RejectionAggregatesErrors ==
    \A k \in RejectedByCIS :
       LET greska == UnmarshalRacunOdgovor(last[k].net.content.xml).value.Greske.Greska
       IN  /\ last[k].res.err = "errors in response"
           /\ last[k].res.messages =
                 Join([i \in 1..Len(greska) |->
                          greska[i].SifraGreske \o <<":", " ">> \o greska[i].PorukaGreske],
                      <<";", " ">>)

\* C6: InvoiceRequest returns a nil error only if the status was 200, the IdPoruke of
\* the response equals the IdPoruke of the request and the Jir of the response has the
\* format ValidateJIR checks; the JIR returned is then the Jir of the response; in every
\* other outcome it returns an empty JIR and an error.
AcceptedOnlyWithValidJIR ==
    \A k \in InvoiceRequests :
       LET c == last[k]
           answer == UnmarshalRacunOdgovor(c.net.content.xml)
       IN  /\ ~c.res.panics
           /\ c.res.err = Nil =>
                 /\ c.res.comm # NoComm
                 /\ c.res.comm.status = 200
                 /\ answer.err = Nil
                 /\ answer.value.Zaglavlje # NilZaglavlje
                 /\ answer.value.Zaglavlje.IdPoruke = uuidNew(c.random)
                 /\ ValidateJIR(answer.value.Jir)
                 /\ c.res.jir = answer.value.Jir
           /\ c.res.err # Nil => c.res.jir = <<>>

\* what a caller of InvoiceRequest and of GetResponse sees, but for the signature the
\* body carries
Seen(res) ==
    [jir |-> res.jir, zki |-> res.zki, err |-> res.err, cause |-> res.cause,
     messages |-> res.messages, panics |-> res.panics,
     comm |-> IF res.comm = NoComm THEN <<>>
              ELSE <<res.comm.status, res.comm.err, res.comm.posted,
                     IF res.comm.err = Nil THEN res.comm.body.xml ELSE <<>> >>]

\* C9: verifyXML returns (true, nil) whatever the response, GetResponse with
\* sign = true never fails with 'failed to verify CIS signature', and InvoiceRequest and
\* its GetResponse return the same whether the signature of the response is valid,
\* invalid or missing.
ResponseSignatureIgnored ==
    \A k \in InvoiceRequests :
       LET c == last[k]
       IN  /\ verifyXML(entity, c.net.content) = [ok |-> TRUE, err |-> Nil]
           /\ c.res.cause # "failed to verify CIS signature"
           /\ \A sg \in {"valid", "invalid", "none"} :
                 Seen(InvoiceRequest(c.before, c.random, now,
                                     [c.net EXCEPT !.content.signature = sg])) = Seen(c.res)

\* a response whose signature is not valid has been accepted
InvalidSignatureAccepted ==
    /\ Len(last) = 1
    /\ last[1].op = "InvoiceRequest"
    /\ last[1].net.content.signature = "invalid"
    /\ last[1].res.err = Nil
    /\ last[1].res.jir = JirGood
    /\ last[1].res.comm.posted # <<>>

(***************************************************************************)
(* Properties of parseAndVerifyEmbeddedCerts on malformed files            *)
(***************************************************************************)
\* C11 as stated: a call fails only when no bundle survives chain verification and the
\* validity window; with a surviving leaf (all of them holding RSA keys) a malformed
\* matching file neither makes the call return an error nor makes it panic.
FailsOnlyWithoutSurvivor ==
    \A k \in 1..Len(last) :
       (/\ SurvivingLeaves(last[k].files, last[k].t) # {}
        /\ \A c \in SurvivingLeaves(last[k].files, last[k].t) : c.rsa)
          => last[k].res.outcome = "ok"

(***************************************************************************)
(* SpecCert: decodeP12Cert called on one certManager, container after      *)
(* container, while time passes                                            *)
(***************************************************************************)
\* valid from 100 to 1000
P12Late == P12File(4, P12Certificate(OIB1, 14, 100, 1000))

\* two end-entity certificates, of OIB1 and of OIB2, in one container
P12TwoLeaves ==
    [readable |-> TRUE, decodes |-> TRUE,
     blocks |-> <<[type |-> "PRIVATE KEY", form |-> "pkcs8-rsa", key |-> [n |-> 5]],
                  [type |-> "CERTIFICATE", parses |-> TRUE, cert |-> P12Certificate(OIB1, 15, 0, 2000)],
                  [type |-> "CERTIFICATE", parses |-> TRUE, cert |-> P12Certificate(OIB2, 16, 0, 2000)],
                  [type |-> "CERTIFICATE", parses |-> TRUE, cert |-> P12IssuerCertificate]>>]

P12NoLeaf ==
    [readable |-> TRUE, decodes |-> TRUE,
     blocks |-> <<[type |-> "PRIVATE KEY", form |-> "pkcs8-rsa", key |-> [n |-> 6]],
                  [type |-> "CERTIFICATE", parses |-> TRUE, cert |-> P12IssuerCertificate]>>]

P12NoKey ==
    [readable |-> TRUE, decodes |-> TRUE,
     blocks |-> <<[type |-> "CERTIFICATE", parses |-> TRUE, cert |-> P12Certificate(OIB1, 17, 0, 2000)]>>]

P12ECKey ==
    [readable |-> TRUE, decodes |-> TRUE,
     blocks |-> <<[type |-> "PRIVATE KEY", form |-> "pkcs8-ec", key |-> [n |-> 8]],
                  [type |-> "CERTIFICATE", parses |-> TRUE, cert |-> P12Certificate(OIB1, 18, 0, 2000)]>>]

\* the password does not open the container
P12WrongPassword == [readable |-> TRUE, decodes |-> FALSE, blocks |-> <<>>]

\* an end-entity certificate whose organization does not hold the country code
P12NoOIB ==
    P12File(9, [P12Certificate(OIB1, 19, 0, 2000) EXCEPT !.organization = << <<"L", "A", "B">> >>])

Containers ==
    {P12A, P12B, P12Late, P12TwoLeaves, P12NoLeaf, P12NoKey, P12ECKey, P12WrongPassword,
     P12NoOIB, UnreadableFile}

\* hours at which the clock is read: around the validity of P12A, P12B and P12Late
CertClock == {25, 50, 279, 280, 999, 1000, 1001, 1048}

\* what uint16(x) gives for an x that uint16 cannot represent
Uint16Outcomes == {0, 65535}

MaxDecodeCalls == 2

InitCert ==
    /\ now \in CertClock
    /\ manager = newCertManager
    /\ last = <<>>
    /\ saved = <<>>
    /\ certFS = <<>>
    /\ entity = NoEntity
    /\ invoice = NilInvoice
    /\ calls = 0

\* cm.decodeP12Cert(certPath, password) on the manager
CallDecodeP12Cert ==
    /\ calls < MaxDecodeCalls
    /\ \E p12 \in Containers, ub \in Uint16Outcomes :
          \E r \in {decodeP12Cert(manager, p12, now, ub)} :
             /\ manager' = r.cm
             /\ last' = <<[op |-> "decodeP12Cert", p12 |-> p12, t |-> now, before |-> manager,
                           previous |-> last, res |-> r]>>
    /\ calls' = calls + 1
    /\ UNCHANGED <<entity, invoice, saved, certFS, now>>

CertClockAdvances ==
    /\ \E t \in CertClock : t > now /\ now' = t
    /\ UNCHANGED <<manager, entity, invoice, last, saved, certFS, calls>>

NextCert == CallDecodeP12Cert \/ CertClockAdvances

SpecCert == InitCert /\ [][NextCert]_vars

\* the end-entity certificates of a container, in the order of its blocks
LeafCertificates(p12) ==
    SelectSeq(p12.blocks, LAMBDA b : b.type = "CERTIFICATE" /\ b.parses /\ ~b.cert.isCA)

\* C12 as stated: a call of decodeP12Cert that returns nil was given a container with
\* exactly one certificate that is not a CA certificate.
DecodeRejectsSeveralLeaves ==
    \A k \in 1..Len(last) :
       last[k].res.err = Nil => Len(LeafCertificates(last[k].p12)) = 1

\* C13 as stated: a manager reports init_ok only while its key, certificate, OIB and
\* organization all come from one container whose decoding returned nil, and after a
\* call that returned an error it does not report init_ok while holding the key or the
\* certificate of the container that failed.
InitOkMeansOneContainer ==
    /\ manager.init_ok =>
          \E p12 \in Containers, t \in CertClock, ub \in Uint16Outcomes :
             With(decodeP12Cert(newCertManager, p12, t, ub), LAMBDA r :
                 /\ r.err = Nil
                 /\ manager.privateKey = r.cm.privateKey
                 /\ manager.publicCert = r.cm.publicCert
                 /\ manager.certOIB = r.cm.certOIB
                 /\ manager.certORG = r.cm.certORG)
    /\ \A k \in 1..Len(last) :
          (last[k].res.err # Nil /\ manager.init_ok) =>
             \A i \in 1..Len(last[k].p12.blocks) :
                With(last[k].p12.blocks[i], LAMBDA b :
                    /\ b.type = "PRIVATE KEY" => manager.privateKey # b.key
                    /\ b.type = "CERTIFICATE" => manager.publicCert # b.cert)

(***************************************************************************)
(* SpecEntity: NewFiskalEntity on taxpayer data and containers             *)
(***************************************************************************)
\* OIB1 with another check digit
OIBWrongCheck == [OIB1 EXCEPT ![11] = "9"]

EntityOIBs == {OIB1, OIB2, OIBWrongCheck}

EntityLocationIDs == {<<"A">>, <<"2", "A">>, <<"-">>}

EntityContainers == {P12A, P12B, P12C, P12TwoLeaves, P12NoLeaf, P12NoOIB, UnreadableFile}

\* hours at which the clock is read; at the last one the embedded CIS bundles have expired
EntityClock == {25, 50, 1048, 1000001}

MaxEntityCalls == 1

InitEntity ==
    /\ now \in EntityClock
    /\ entity = NoEntity
    /\ manager = newCertManager
    /\ last = <<>>
    /\ saved = <<>>
    /\ certFS = <<>>
    /\ invoice = NilInvoice
    /\ calls = 0

\* the application calls NewFiskalEntity and keeps the entity it is handed
CallNewFiskalEntity ==
    /\ calls < MaxEntityCalls
    /\ \E oib \in EntityOIBs, locationID \in EntityLocationIDs, demoMode \in BOOLEAN,
          chk_expired \in BOOLEAN, p12 \in EntityContainers, ub \in Uint16Outcomes :
          \E r \in {NewFiskalEntity(oib, TRUE, locationID, FALSE, demoMode, chk_expired, p12, now, ub)} :
             /\ last' = <<[op |-> "NewFiskalEntity", oib |-> oib, locationID |-> locationID,
                           demoMode |-> demoMode, chk_expired |-> chk_expired, p12 |-> p12,
                           t |-> now, res |-> r]>>
             /\ entity' = IF r.err = Nil THEN r.entity ELSE entity
    /\ calls' = calls + 1
    /\ UNCHANGED <<manager, invoice, saved, certFS>>
    /\ now' = now

EntityClockAdvances ==
    /\ \E t \in EntityClock : t > now /\ now' = t
    /\ UNCHANGED <<manager, entity, invoice, last, saved, certFS, calls>>

NextEntity == CallNewFiskalEntity \/ EntityClockAdvances

SpecEntity == InitEntity /\ [][NextEntity]_vars

\* C14: an entity returned with a nil error has a valid OIB and location ID, an
\* initialized certificate manager whose certificate subject holds that OIB, a
\* certificate that has not expired when chk_expired was set, and the endpoint and trust
\* anchor of the demo environment exactly when demoMode was set; with an error the
\* entity returned is nil.
EntityValidWhenReturned ==
    \A k \in 1..Len(last) :
       With(last[k], LAMBDA c :
           IF c.res.err # Nil THEN c.res.entity = NoEntity
           ELSE With(c.res.entity, LAMBDA e :
                    /\ e # NoEntity
                    /\ e.oib = c.oib /\ ValidateOIB(e.oib)
                    /\ e.locationID = c.locationID /\ ValidateLocationID(e.locationID)
                    /\ e.cert.init_ok
                    /\ getCertOIB(e.cert) = [oib |-> e.oib, err |-> Nil]
                    /\ c.chk_expired => ~(c.t > e.cert.publicCert.notAfter)
                    /\ e.demoMode = c.demoMode
                    /\ demo_url # production_url
                    /\ getDemoPublicKey(c.t).cert # getProductionPublicKey(c.t).cert
                    /\ e.url = (IF c.demoMode THEN demo_url ELSE production_url)
                    /\ e.ciscert = (IF c.demoMode THEN getDemoPublicKey(c.t).cert
                                    ELSE getProductionPublicKey(c.t).cert)))

\* a production entity returned with the expiry check on, and an expired certificate
\* accepted with the check off
EntityReturnedChecked ==
    /\ Len(last) = 1
    /\ last[1].res.err = Nil
    /\ \/ last[1].chk_expired /\ ~last[1].demoMode
       \/ ~last[1].chk_expired /\ last[1].res.entity.cert.expired

\* C15 as stated: on a manager from newCertManager, decodeP12Cert fails when the clock
\* is before NotBefore of the certificate; otherwise expired holds exactly when the
\* clock is after NotAfter, expire_soon exactly when at most 30 days (720 hours) remain,
\* and expire_days is the number of whole days until NotAfter, 0 once expired.
ExpiryFieldsAsStated ==
    \A k \in 1..Len(last) :
       With(last[k], LAMBDA c :
           (c.before = newCertManager /\ Len(LeafCertificates(c.p12)) = 1 /\ c.p12.decodes) =>
              With(LeafCertificates(c.p12)[1].cert, LAMBDA leaf :
                  /\ c.t < leaf.notBefore => c.res.err # Nil
                  /\ c.res.err = Nil =>
                        /\ c.res.cm.expired = (c.t > leaf.notAfter)
                        /\ c.res.cm.expire_soon = (leaf.notAfter - c.t <= 30 * 24)
                        /\ c.res.cm.expire_days =
                              (IF c.t > leaf.notAfter THEN 0 ELSE (leaf.notAfter - c.t) \div 24)))

(***************************************************************************)
(* SpecCurrency: IsValidCurrencyFormat on short strings                    *)
(***************************************************************************)
AmountCharacters == {"0", "7", ".", ",", "-", " ", "a", "\n"}

MaxAmountLen == 5

AmountStrings == UNION {[1..n -> AmountCharacters] : n \in 0..MaxAmountLen}

InitCurrency ==
    /\ saved \in {<<a>> : a \in AmountStrings}
    /\ last = <<>>
    /\ entity = NoEntity
    /\ invoice = NilInvoice
    /\ manager = newCertManager
    /\ certFS = <<>>
    /\ now = 0
    /\ calls = 0

\* IsValidCurrencyFormat(amount) on the string at the head of saved
CallIsValidCurrencyFormat ==
    /\ saved # <<>>
    /\ last' = <<[op |-> "IsValidCurrencyFormat", amount |-> Head(saved),
                  res |-> IsValidCurrencyFormat(Head(saved))]>>
    /\ saved' = Tail(saved)
    /\ calls' = calls + 1
    /\ UNCHANGED <<manager, entity, invoice, certFS, now>>

NextCurrency == CallIsValidCurrencyFormat

SpecCurrency == InitCurrency /\ [][NextCurrency]_vars

RECURSIVE CurrencyScan(_, _, _)
\* reading s from character i on: "int" is inside the integer digits, "dot" just after
\* the '.', "one" after one fractional digit, "two" after two, "bad" anything else
CurrencyScan(s, i, at) ==
    IF i > Len(s) THEN at
    ELSE CurrencyScan(s, i + 1,
            IF at \in {"start", "int"} /\ s[i] \in DigitSet THEN "int"
            ELSE IF at = "int" /\ s[i] = "." THEN "dot"
            ELSE IF at = "dot" /\ s[i] \in DigitSet THEN "one"
            ELSE IF at = "one" /\ s[i] \in DigitSet THEN "two"
            ELSE "bad")

\* C16: IsValidCurrencyFormat returns true exactly for one or more decimal digits, a
\* '.' and exactly two decimal digits; it returns false without a fractional part, with
\* one or three fractional digits, a comma, a sign, a letter, a space, a trailing line
\* feed, and for the empty string.
CurrencyFormatExact ==
    \A k \in 1..Len(last) :
       /\ last[k].res = (CurrencyScan(last[k].amount, 1, "start") = "two")
       /\ last[k].amount \in {<<>>, <<"7">>, <<"7", ".">>, <<"7", ".", "0">>,
                              <<"7", ".", "0", "0", "0">>, <<"7", ",", "0", "0">>,
                              <<"-", "7", ".", "0", "0">>, <<"a", ".", "0", "0">>,
                              <<"7", ".", "0", "0", " ">>, <<"7", " ", ".", "0", "0">>,
                              <<" ", "7", ".", "0", "0">>, <<"7", ".", "0", "0", "\n">>,
                              <<".", "0", "0">>}
             => ~last[k].res

\* "0.00" and "77.07" accepted
CurrencyAccepted ==
    /\ Len(last) = 1
    /\ last[1].res
    /\ last[1].amount \in {<<"0", ".", "0", "0">>, <<"7", "7", ".", "0", "7">>}

(***************************************************************************)
(* SpecOIB: ValidateOIB on OIBs, their alterations and other strings       *)
(***************************************************************************)
\* the bytes an OIB character is replaced by: the digits, the neighbours of '0' and '9'
\* in ASCII, a letter and a space
OIBCharacters == DigitSet \cup {"/", ":", "a", " "}

\* the OIB of TestCheckOIB, the invalid one of TestCheckOIB, and two more
OIBSeeds ==
    {OIB1, OIB2, <<"1", "2", "3", "4", "5", "6", "7", "8", "9", "0", "0">>,
     <<"0", "0", "0", "0", "0", "0", "0", "0", "0", "0", "1">>}

\* how many characters of a seed are replaced at once
MaxAlterations == 2

RECURSIVE Altered(_, _)
\* the strings obtained from those of ss by replacing at most n characters
Altered(ss, n) ==
    IF n = 0 THEN ss
    ELSE Altered(ss \cup {[s EXCEPT ![i] = c] : s \in ss, i \in 1..11, c \in OIBCharacters}, n - 1)

\* strings of other lengths: a seed cut short, or with a digit before or after it
OIBOtherLengths ==
    {SubSeq(s, 1, n) : s \in OIBSeeds, n \in 0..10}
       \cup {s \o <<d>> : s \in OIBSeeds, d \in DigitSet}
       \cup {<<d>> \o s : s \in OIBSeeds, d \in DigitSet}

OIBStrings == Altered(OIBSeeds, MaxAlterations) \cup OIBOtherLengths

InitOIB ==
    /\ saved \in {<<s>> : s \in OIBStrings}
    /\ last = <<>>
    /\ entity = NoEntity
    /\ invoice = NilInvoice
    /\ manager = newCertManager
    /\ certFS = <<>>
    /\ now = 0
    /\ calls = 0

\* ValidateOIB(oib) on the string at the head of saved
CallValidateOIB ==
    /\ saved # <<>>
    /\ last' = <<[op |-> "ValidateOIB", oib |-> Head(saved), res |-> ValidateOIB(Head(saved))]>>
    /\ saved' = Tail(saved)
    /\ calls' = calls + 1
    /\ UNCHANGED <<manager, entity, invoice, certFS, now>>

NextOIB == CallValidateOIB

SpecOIB == InitOIB /\ [][NextOIB]_vars

RECURSIVE Mod1110(_, _, _)
\* ISO 7064 MOD 11,10, the hybrid recurrence over the digits ds from the i-th on:
\* P(0) = 10, S(j) = P(j-1) + a(j) (mod 10, 10 for 0), P(j) = 2 S(j) (mod 11);
\* the value is S of the last digit (reduced mod 10)
Mod1110(ds, i, p) ==
    IF i = Len(ds) THEN (p + DigitVal(ds[i])) % 10
    ELSE Mod1110(ds, i + 1, (2 * (IF (p + DigitVal(ds[i])) % 10 = 0 THEN 10 ELSE (p + DigitVal(ds[i])) % 10)) % 11)

\* a string of digits whose last digit is the MOD 11,10 check digit of the others:
\* the recurrence over the whole string ends at 1
HasCheckDigit(ds) == Mod1110(ds, 1, 10) = 1

\* C17: ValidateOIB returns true exactly for strings of 11 decimal digits whose last
\* digit is the ISO 7064 MOD 11,10 check digit of the first ten; a valid OIB with one
\* digit replaced by another digit is rejected; a string of another length or with a
\* byte that is not a digit is rejected.
OIBCheckDigitExact ==
    \A k \in 1..Len(last) :
       With(last[k].oib, LAMBDA oib :
           /\ last[k].res = (/\ Len(oib) = 11
                             /\ \A i \in 1..Len(oib) : oib[i] \in DigitSet
                             /\ HasCheckDigit(oib))
           /\ last[k].res =>
                 \A i \in 1..11, d \in DigitSet :
                    d # oib[i] => ~ValidateOIB([oib EXCEPT ![i] = d])
           /\ (Len(oib) # 11 \/ \E i \in 1..Len(oib) : oib[i] \notin DigitSet) => ~last[k].res)

\* the OIB of TestCheckOIB accepted
OIBAccepted ==
    /\ Len(last) = 1
    /\ last[1].res
    /\ last[1].oib = OIB1

(***************************************************************************)
(* canonicalization.go: the inclusive canonicalizers                       *)
(***************************************************************************)
\* seenSoFar of canonicalPrep: no declaration seen
NothingSeen == [p \in NSPrefixes |-> Undeclared]

\* the loop of canonicalPrepInner over the sorted attributes that keeps every one of them
PrepAttrsKeepAll(attrs, seenSoFar) == [attrs |-> attrs, seen |-> seenSoFar]

RECURSIVE PrepAttrsSeenOnce(_, _)
\* the loop of canonicalPrepInner, had it tested only whether the prefix was seen
PrepAttrsSeenOnce(attrs, seenSoFar) ==
    IF attrs = <<>> THEN [attrs |-> <<>>, seen |-> seenSoFar]
    ELSE With(Head(attrs), LAMBDA attr :
         With(~IsNSDecl(attr) \/ seenSoFar[DeclaredPrefix(attr)] = Undeclared, LAMBDA keep :
         With(PrepAttrsSeenOnce(Tail(attrs),
                                IF IsNSDecl(attr) /\ keep
                                THEN [seenSoFar EXCEPT ![DeclaredPrefix(attr)] = attr.value]
                                ELSE seenSoFar), LAMBDA rest :
             [attrs |-> IF keep THEN <<attr>> \o rest.attrs ELSE rest.attrs,
              seen  |-> rest.seen])))

RECURSIVE PrepAttrs(_, _)
\* the loop of canonicalPrepInner over the sorted attributes: a namespace declaration
\* is kept when the prefix was not seen or was seen with another value, and a default
\* declaration not seen before is kept when it is not empty: [attrs, seen]
PrepAttrs(attrs, seenSoFar) ==
    IF attrs = <<>> THEN [attrs |-> <<>>, seen |-> seenSoFar]
    ELSE With(Head(attrs), LAMBDA attr :
         With(seenSoFar[DeclaredPrefix(attr)], LAMBDA uri :
         With(IF ~IsNSDecl(attr) THEN TRUE
              ELSE IF attr.space = "xmlns" THEN uri = Undeclared \/ attr.value # uri
              ELSE (uri = Undeclared /\ attr.value # <<>>)
                      \/ attr.value # (IF uri = Undeclared THEN <<>> ELSE uri), LAMBDA keep :
         With(PrepAttrs(Tail(attrs),
                        IF IsNSDecl(attr) /\ keep
                        THEN [seenSoFar EXCEPT ![DeclaredPrefix(attr)] = attr.value]
                        ELSE seenSoFar), LAMBDA rest :
             [attrs |-> IF keep THEN <<attr>> \o rest.attrs ELSE rest.attrs,
              seen  |-> rest.seen]))))

RECURSIVE canonicalPrepInner(_, _, _, _, _)
\* canonicalPrepInner(el, seenSoFar, strip, comments); scope holds the bindings that
\* the order of the attributes refers to
canonicalPrepInner(el, seenSoFar, strip, comments, scope) ==
    With(SubContext(scope, el.attrs), LAMBDA inner :
    With(PrepAttrs(SortedAttrs(el.attrs, inner), seenSoFar), LAMBDA kept :
    With(SelectSeq(el.child, LAMBDA n : comments \/ n.kind # "comment"), LAMBDA child :
        Element(el.space, el.tag, kept.attrs,
                [i \in 1..Len(child) |->
                    IF child[i].kind = "element"
                    THEN canonicalPrepInner(child[i], kept.seen, strip, comments, inner)
                    ELSE child[i]]))))

canonicalPrep(el, strip, comments) ==
    canonicalPrepInner(el, NothingSeen, strip, comments, DefaultNSContext)

\* etree.Element.CreateAttr: the value of an attribute of that name is replaced,
\* otherwise the attribute is added at the end
CreateAttr(attrs, a) ==
    IF \E i \in 1..Len(attrs) : attrs[i].space = a.space /\ attrs[i].key = a.key
    THEN [i \in 1..Len(attrs) |->
             IF attrs[i].space = a.space /\ attrs[i].key = a.key THEN a ELSE attrs[i]]
    ELSE Append(attrs, a)

RECURSIVE CreateAttrs(_, _)
CreateAttrs(attrs, more) ==
    IF more = <<>> THEN attrs ELSE CreateAttrs(CreateAttr(attrs, Head(more)), Tail(more))

\* getParentNamespaceAndXmlAttributes for an element with these ancestors, the
\* outermost first: the namespace declarations and xml: attributes of the ancestors,
\* an inner one replacing an outer one of the same name
getParentNamespaceAndXmlAttributes(parents) ==
    CreateAttrs(<<>>, SelectSeq(Concat([i \in 1..Len(parents) |-> parents[i].attrs]),
                                LAMBDA a : IsNSDecl(a) \/ a.space = "xml"))

\* enhanceNamespaceAttributes: the order in which the maps are walked does not reach
\* the output, canonicalPrep sorting the attributes afterwards
enhanceNamespaceAttributes(el, inherited) ==
    Element(el.space, el.tag, CreateAttrs(el.attrs, inherited), el.child)

ExcC14N == "http://www.w3.org/2001/10/xml-exc-c14n#"

C14N11 == "http://www.w3.org/2006/12/xml-c14n11"

C14N10Rec == "http://www.w3.org/TR/2001/REC-xml-c14n-20010315"

\* the canonicalizers of MakeC14N10ExclusiveCanonicalizerWithPrefixList(""),
\* MakeC14N10ExclusiveWithCommentsCanonicalizerWithPrefixList(""),
\* MakeC14N11Canonicalizer, MakeC14N11WithCommentsCanonicalizer,
\* MakeC14N10RecCanonicalizer and MakeC14N10WithCommentsCanonicalizer
Canonicalizers == {[algorithm |-> a, comments |-> c] : a \in {ExcC14N, C14N11, C14N10Rec}, c \in BOOLEAN}

\* canonicalizer.Canonicalize(el), el having these ancestors: [bytes, err]
CanonicalizeWith(canonicalizer, parents, el) ==
    IF canonicalizer.algorithm = ExcC14N
    THEN With(TransformExcC14n(el, DefaultNSContext, DefaultNSContext, canonicalizer.comments),
              LAMBDA t :
                 IF t.err # Nil THEN [bytes |-> <<>>, err |-> t.err]
                 ELSE [bytes |-> canonicalSerialize(t.el), err |-> Nil])
    ELSE IF canonicalizer.algorithm = C14N11
    THEN [bytes |-> canonicalSerialize(canonicalPrep(el, TRUE, canonicalizer.comments)),
          err |-> Nil]
    ELSE [bytes |-> canonicalSerialize(canonicalPrep(
                       enhanceNamespaceAttributes(el, getParentNamespaceAndXmlAttributes(parents)),
                       TRUE, canonicalizer.comments)),
          err |-> Nil]

\* runCanonicalizationTest: the document is read and its root canonicalized
runCanonicalizationTest(canonicalizer, xmlstr) ==
    With(ReadFromBytes(xmlstr), LAMBDA raw :
        IF raw.err # Nil THEN [bytes |-> <<>>, err |-> raw.err]
        ELSE IF Root(raw.child) = NoElement
        THEN [bytes |-> <<>>, err |-> "panic: nil pointer dereference"]
        ELSE CanonicalizeWith(canonicalizer, <<>>, Root(raw.child)))

(***************************************************************************)
(* SpecC14N: the canonicalizers on documents and on their own output       *)
(***************************************************************************)
Other == <<"urn:other">>

\* prefixed names, an unused declaration, attributes with and without prefix, a comment
TreePrefixed ==
    Element("tns", "RacunZahtjev",
        <<Attr("", "Id", Id1), Attr("xmlns", "tns", F73), Attr("ds", "URI", <<"#">>),
          Attr("xmlns", "ds", XMLDSig), Attr("", "Algorithm", <<"a">>)>>,
        <<Comment(<<"a">>),
          Element("tns", "Zaglavlje", <<Attr("", "Id", Id2), Attr("", "Algorithm", <<"b">>)>>,
              <<Element("tns", "IdPoruke", <<>>, <<CharData(<<"a", "1">>)>>)>>),
          Element("ds", "Signature", <<>>, <<>>)>>)

\* a default namespace, a prefix bound to another namespace in a child
TreeDefault ==
    Element("", "Racun",
        <<Attr("", "xmlns", F73), Attr("xmlns", "tns", F73), Attr("", "Id", Id1)>>,
        <<Element("tns", "Oib", <<Attr("xmlns", "tns", Other), Attr("tns", "Id", Id2)>>,
              <<Element("tns", "BrRac", <<>>, <<>>), CharData(<<" ">>), Comment(<<"b">>)>>),
          Element("", "ZastKod", <<Attr("", "URI", <<>>), Attr("", "Id", Id2)>>, <<>>)>>)

\* no namespace at all
TreePlain ==
    Element("", "EchoRequest", <<Attr("", "URI", <<"#">>), Attr("", "Id", Id1)>>,
        <<CharData(<<"a">>), Element("", "Oib", <<>>, <<>>)>>)

Trees == {TreePrefixed, TreeDefault, TreePlain}

\* the sequences that hold the elements of s in another order
Permuted(s) ==
    {[i \in 1..Len(s) |-> s[p[i]]] :
        p \in {q \in [1..Len(s) -> 1..Len(s)] : \A i, j \in 1..Len(s) : q[i] = q[j] => i = j}}

RECURSIVE Reversed(_)
\* the tree with the attributes of every element in reverse order
Reversed(el) ==
    IF el.kind # "element" THEN el
    ELSE Element(el.space, el.tag, [i \in 1..Len(el.attrs) |-> el.attrs[Len(el.attrs) + 1 - i]],
                 [i \in 1..Len(el.child) |-> Reversed(el.child[i])])

RECURSIVE Redeclared(_, _, _, _)
\* the tree in which the elements below the root named in where declare the prefix p
\* once more, with the value it is bound to by their ancestors
Redeclared(el, scope, p, where) ==
    IF el.kind # "element" THEN el
    ELSE With(SubContext(scope, el.attrs), LAMBDA inner :
             Element(el.space, el.tag,
                     IF /\ el.tag \in where
                        /\ scope[p] # Undeclared
                        /\ scope[p] = inner[p]
                        /\ \A i \in 1..Len(el.attrs) :
                              ~(IsNSDecl(el.attrs[i]) /\ DeclaredPrefix(el.attrs[i]) = p)
                     THEN <<IF p = "" THEN Attr("", "xmlns", scope[p]) ELSE Attr("xmlns", p, scope[p])>>
                          \o el.attrs
                     ELSE el.attrs,
                     [i \in 1..Len(el.child) |-> Redeclared(el.child[i], inner, p, where)]))

\* the declarations of the root do not repeat an ancestor's: the scope outside the
\* root binds no prefix
NoBinding == [p \in NSPrefixes |-> Undeclared]

\* trees that differ from el only in the order of attributes or in repeated declarations
Variants(el) ==
    {Element(el.space, el.tag, attrs, el.child) : attrs \in Permuted(el.attrs)}
       \cup {Reversed(el)}
       \cup {Redeclared(v, NoBinding, p, where) :
                v \in {el, Reversed(el)}, p \in NSPrefixes,
                where \in SUBSET {"Zaglavlje", "IdPoruke", "Signature", "Oib", "BrRac", "ZastKod"}}

\* the text of a tree, as a document: an XML declaration and a comment before the root
\* or nothing
Documents(el) ==
    {WriteNodes(<<el>>, FALSE), <<DeclTok, CommentTok(<<"c">>)>> \o WriteNodes(<<el>>, FALSE)}

\* two documents to canonicalize, the second a variant of the first
DocumentPairs ==
    UNION {{<<WriteNodes(<<el>>, FALSE), d>> : d \in UNION {Documents(v) : v \in Variants(el)}} :
              el \in Trees}

\* calls of a canonicalizer in one run
MaxC14NCalls == 3

InitC14N ==
    /\ saved \in DocumentPairs
    /\ last = <<>>
    /\ entity = NoEntity
    /\ invoice = NilInvoice
    /\ manager = newCertManager
    /\ certFS = <<>>
    /\ now = 0
    /\ calls = 0

\* one canonicalizer applied to the next document
CallCanonicalize ==
    /\ saved # <<>>
    /\ calls < MaxC14NCalls
    /\ \E canonicalizer \in Canonicalizers :
          last' = Append(last, [op |-> "Canonicalize", canonicalizer |-> canonicalizer,
                                of |-> 0, xmlstr |-> Head(saved),
                                res |-> runCanonicalizationTest(canonicalizer, Head(saved))])
    /\ saved' = Tail(saved)
    /\ calls' = calls + 1
    /\ UNCHANGED <<manager, entity, invoice, certFS, now>>

\* the output of an earlier call canonicalized again by the same canonicalizer
CallCanonicalizeOutput ==
    /\ calls < MaxC14NCalls
    /\ \E k \in 1..Len(last) :
          /\ last[k].res.err = Nil
          /\ last[k].of = 0
          /\ last' = Append(last, [op |-> "Canonicalize", canonicalizer |-> last[k].canonicalizer,
                                   of |-> k, xmlstr |-> last[k].res.bytes,
                                   res |-> runCanonicalizationTest(last[k].canonicalizer,
                                                                   last[k].res.bytes)])
    /\ calls' = calls + 1
    /\ UNCHANGED <<manager, entity, invoice, saved, certFS, now>>

NextC14N == CallCanonicalize \/ CallCanonicalizeOutput

SpecC14N == InitC14N /\ [][NextC14N]_vars

\* C18: each canonicalizer returns its own output unchanged when it is given that
\* output, and returns the same bytes for two documents that differ only in the order
\* of attributes or in a namespace declaration that repeats the binding of an ancestor.
CanonicalFormStable ==
    \A k \in 1..Len(last) :
       /\ last[k].res.err = Nil
       /\ last[k].of # 0 => last[k].res.bytes = last[k].xmlstr
       /\ \A j \in 1..Len(last) :
             (last[j].of = 0 /\ last[k].of = 0 /\ last[j].canonicalizer = last[k].canonicalizer)
                => last[j].res.bytes = last[k].res.bytes

\* the number of namespace declarations in a document
NSDeclCount(toks) ==
    Sum([i \in 1..Len(toks) |-> Len(SelectSeq(toks[i].attrs, IsNSDecl))])

\* a canonicalizer has been given a document, the document with its attributes in
\* another order and a repeated declaration, and its own output
CanonicalizedThrice ==
    /\ Len(last) = 3
    /\ last[1].of = 0 /\ last[2].of = 0 /\ last[3].of # 0
    /\ last[1].canonicalizer = last[2].canonicalizer
    /\ last[1].xmlstr # last[2].xmlstr
    /\ last[1].xmlstr # last[1].res.bytes
    /\ NSDeclCount(last[2].xmlstr) > NSDeclCount(last[1].xmlstr)
    /\ \E i \in 1..Len(last[2].xmlstr) :
          /\ last[2].xmlstr[i].k = "start"
          /\ last[2].xmlstr[i].tag = last[1].xmlstr[1].tag
          /\ last[2].xmlstr[i].attrs # last[1].xmlstr[1].attrs

\* C19 as stated: the ZKI returned by a successful call is the one of the string made,
\* without separators, of the OIB, the timestamp as dd.mm.yyyy, the letter T, hh:mm:ss,
\* the invoice number, the location ID, the device number and the total amount.
ZKIOfStatedString ==
    \A k \in 1..Len(last) :
       last[k].err = Nil =>
          With(last[k].args, LAMBDA a :
              \E random \in RandomStates :
                 last[k].zki =
                    HexEncode(md5Sum(SignPKCS1v15(random, a.ent.cert.privateKey,
                       sha1Sum(Concat(<<a.ent.oib, FormatTime(a.issueDateTime, <<"T">>),
                                        FormatUint(a.invoiceNumber), a.ent.locationID,
                                        FormatUint(a.deviceID), a.totalAmount>>))))))

(***************************************************************************)
(* SpecInvoice: NewCISInvoice on well-formed and malformed arguments       *)
(***************************************************************************)
\* a rate, a name, and amounts that are not in currency format
Rate25 == <<"2", "5", ".", "0", "0">>

FeeName == <<"N">>

MalformedAmounts == {<<>>, <<"9", "0">>, <<"9", "0", ".", "0">>, <<"9", "0", ",", "0", "0">>,
                     <<"-", "9", ".", "0", "0">>}

PorezRowGood == <<StringValue(Rate25), StringValue(Amount9000), StringValue(Amount9001)>>

\* rows of newPdv and newPNP that are rejected: another number of elements, an element
\* that is not a string, a base or an amount that is not in currency format
PorezRowsBad ==
    {<<>>, SubSeq(PorezRowGood, 1, 2), PorezRowGood \o <<StringValue(Amount9000)>>}
       \cup {[PorezRowGood EXCEPT ![i] = IntValue(<<"2", "5">>)] : i \in 1..3}
       \cup {[PorezRowGood EXCEPT ![i] = StringValue(a)] : i \in 2..3, a \in MalformedAmounts}

PorezOstaloRowGood ==
    <<StringValue(FeeName), StringValue(Rate25), StringValue(Amount9000), StringValue(Amount9001)>>

PorezOstaloRowsBad ==
    {<<>>, SubSeq(PorezOstaloRowGood, 1, 3), PorezOstaloRowGood \o <<StringValue(Amount9000)>>}
       \cup {[PorezOstaloRowGood EXCEPT ![i] = IntValue(<<"2", "5">>)] : i \in 1..4}
       \cup {[PorezOstaloRowGood EXCEPT ![i] = StringValue(a)] : i \in 3..4, a \in MalformedAmounts}

NaknadaRowGood == <<FeeName, Amount9000>>

NaknadaRowsBad ==
    {<<>>, <<FeeName>>, <<FeeName, Amount9000, Amount9000>>}
       \cup {<<FeeName, a>> : a \in MalformedAmounts}

\* slices with a rejected row alone, after a good row, or before one
WithBadRow(good, bad) ==
    UNION {{Rows(<<b>>), Rows(<<good, b>>), Rows(<<b, good>>)} : b \in bad}

\* arguments that NewCISInvoice accepts: without rows, and with rows of every kind
InvoiceArgsGood ==
    {[pdvValues |-> r[1], pnpValues |-> r[2], ostaliPorValues |-> r[3], naknadeValues |-> r[4],
      iznosOslobPdv |-> ZeroAmount, iznosMarza |-> Amount9001, iznosNePodlOpor |-> ZeroAmount,
      iznosUkupno |-> Amount9000, paymentMethod |-> m] :
        r \in {<<NilRows, NilRows, NilRows, NilRows>>,
               <<Rows(<<>>), NilRows, Rows(<<>>), NilRows>>,
               <<Rows(<<PorezRowGood, PorezRowGood>>), Rows(<<PorezRowGood>>),
                 Rows(<<PorezOstaloRowGood>>), Rows(<<NaknadaRowGood>>)>>},
        m \in PaymentMethods}

\* the arguments obtained from a by replacing one of them by a value that makes the
\* call fail
OneDefect(a) ==
    {[a EXCEPT !.iznosUkupno = x] : x \in MalformedAmounts}
       \cup {[a EXCEPT !.iznosOslobPdv = x] : x \in MalformedAmounts}
       \cup {[a EXCEPT !.iznosMarza = x] : x \in MalformedAmounts}
       \cup {[a EXCEPT !.iznosNePodlOpor = x] : x \in MalformedAmounts}
       \cup {[a EXCEPT !.paymentMethod = m] : m \in {"X", "g", "GK", ""}}
       \cup {[a EXCEPT !.pdvValues = v] : v \in WithBadRow(PorezRowGood, PorezRowsBad)}
       \cup {[a EXCEPT !.pnpValues = v] : v \in WithBadRow(PorezRowGood, PorezRowsBad)}
       \cup {[a EXCEPT !.ostaliPorValues = v] :
                v \in WithBadRow(PorezOstaloRowGood, PorezOstaloRowsBad)}
       \cup {[a EXCEPT !.naknadeValues = v] : v \in WithBadRow(NaknadaRowGood, NaknadaRowsBad)}

\* how many arguments of a call are replaced at once
MaxDefects == 1

RECURSIVE Defective(_, _)
\* the arguments obtained from those of as by replacing at most n of them
Defective(as, n) ==
    IF n = 0 THEN as ELSE Defective(as \cup UNION {OneDefect(a) : a \in as}, n - 1)

InvoiceArgs == Defective(InvoiceArgsGood, MaxDefects)

InitInvoice ==
    /\ entity \in IssuingEntities
    /\ saved \in {<<a>> : a \in InvoiceArgs}
    /\ invoice = NilInvoice
    /\ last = <<>>
    /\ manager = newCertManager
    /\ certFS = <<>>
    /\ now = 50
    /\ calls = 0

\* the application calls NewCISInvoice with the arguments at the head of saved and
\* keeps the invoice it is handed
CallNewCISInvoiceWithRows ==
    /\ saved # <<>>
    /\ \E random \in RandomStates :
          \E a \in {Head(saved)} :
          \E r \in {NewCISInvoice(entity, T0, 1, 1, a.pdvValues, a.pnpValues, a.ostaliPorValues,
                                  a.iznosOslobPdv, a.iznosMarza, a.iznosNePodlOpor,
                                  a.naknadeValues, a.iznosUkupno, a.paymentMethod, OIB2, random)} :
             /\ last' = <<[op |-> "NewCISInvoice", args |-> a, random |-> random, res |-> r]>>
             /\ invoice' = IF r.err = Nil THEN r.invoice ELSE invoice
    /\ saved' = Tail(saved)
    /\ calls' = calls + 1
    /\ UNCHANGED <<manager, entity, certFS, now>>

NextInvoice == CallNewCISInvoiceWithRows

SpecInvoice == InitInvoice /\ [][NextInvoice]_vars

\* a row of n strings, those at the places in amounts being in currency format
RowWellFormed(v, n, amounts) ==
    /\ Len(v) = n
    /\ \A i \in 1..Len(v) : v[i].type = "string"
    /\ \A i \in amounts : i <= Len(v) => IsValidCurrencyFormat(v[i].value)

AllRows(values, Good(_)) == \A i \in 1..Len(values.rows) : Good(values.rows[i])

\* arguments that the claim says are rejected
InvoiceArgsMalformed(a) ==
    \/ \E amount \in {a.iznosUkupno, a.iznosOslobPdv, a.iznosMarza, a.iznosNePodlOpor} :
          ~IsValidCurrencyFormat(amount)
    \/ ~AllRows(a.pdvValues, LAMBDA v : RowWellFormed(v, 3, {2, 3}))
    \/ ~AllRows(a.pnpValues, LAMBDA v : RowWellFormed(v, 3, {2, 3}))
    \/ ~AllRows(a.ostaliPorValues, LAMBDA v : RowWellFormed(v, 4, {3, 4}))
    \/ ~AllRows(a.naknadeValues, LAMBDA v : Len(v) = 2 /\ IsValidCurrencyFormat(v[2]))
    \/ a.paymentMethod \notin {"G", "K", "O", "T", "C"}

GetCertSERIAL(fe) == fe.cert.certSERIAL

\* the serial number that displayCertInfoText prints: publicCert.SerialNumber.String()
DisplayedSerial(cm) == FormatUint(cm.publicCert.serial)

\* C21 as stated: for every entity returned by NewFiskalEntity, GetCertSERIAL returns a
\* non-empty string, the serial number of the loaded certificate as
\* DisplayCertInfoText shows it.
CertSerialReturned ==
    \A k \in 1..Len(last) :
       (last[k].op = "NewFiskalEntity" /\ last[k].res.err = Nil) =>
          /\ GetCertSERIAL(last[k].res.entity) # <<>>
          /\ GetCertSERIAL(last[k].res.entity) = DisplayedSerial(last[k].res.entity.cert)

DefaultDecls == {<<>>, <<Attr("", "xmlns", <<>>)>>, <<Attr("", "xmlns", F73)>>,
                 <<Attr("", "xmlns", Other)>>}

\* what an element declares for the prefix tns: nothing or a URI
PrefixDecls == {<<>>, <<Attr("xmlns", "tns", F73)>>, <<Attr("xmlns", "tns", Other)>>}

\* the namespace declarations of one element
Decls == {d \o q : d \in DefaultDecls, q \in PrefixDecls}

\* <Racun><Oib Id="R2"><BrRac/></Oib><ZastKod/><!--c--></Racun> with declarations on
\* each of the four elements
PrepTrees ==
    {Element("", "Racun", r,
         <<Element("", "Oib", <<Attr("", "Id", Id2)>> \o a, <<Element("", "BrRac", b, <<>>)>>),
           Element("", "ZastKod", c, <<>>),
           Comment(<<"c">>)>>) : r \in Decls, a \in Decls, b \in Decls, c \in Decls}

\* the elements of a tree of PrepTrees, each with its ancestors, the nearest first
PrepPaths ==
    {[at |-> <<>>, above |-> <<>>],
     [at |-> <<"Oib">>, above |-> <<<<>>>>],
     [at |-> <<"Oib", "BrRac">>, above |-> <<<<"Oib">>, <<>>>>],
     [at |-> <<"ZastKod">>, above |-> <<<<>>>>]}

InitPrep ==
    /\ saved \in {<<el>> : el \in PrepTrees}
    /\ last = <<>>
    /\ entity = NoEntity
    /\ invoice = NilInvoice
    /\ manager = newCertManager
    /\ certFS = <<>>
    /\ now = 0
    /\ calls = 0

CallCanonicalPrep ==
    /\ saved # <<>>
    /\ \E comments \in BOOLEAN :
          last' = <<[op |-> "canonicalPrep", el |-> Head(saved), comments |-> comments,
                     res |-> canonicalPrep(Head(saved), FALSE, comments)]>>
    /\ saved' = Tail(saved)
    /\ calls' = calls + 1
    /\ UNCHANGED <<manager, entity, invoice, certFS, now>>

NextPrep == CallCanonicalPrep

SpecPrep == InitPrep /\ [][NextPrep]_vars

\* the declarations of the prefix p among these attributes
DeclsOf(attrs, p) == SelectSeq(attrs, LAMBDA a : IsNSDecl(a) /\ DeclaredPrefix(a) = p)

\* the elements of tree, among those at the places above (the nearest first), that
\* declare the prefix p
Binders(tree, above, p) ==
    SelectSeq(above, LAMBDA at : DeclsOf(ElementAt(tree, at).attrs, p) # <<>>)

\* the declaration d of the element of tree with these ancestors repeats the nearest
\* binding of its prefix, or is xmlns="" where no ancestor declares a default namespace
Superfluous(tree, above, d) ==
    LET binders == Binders(tree, above, DeclaredPrefix(d))
    IN  IF binders = <<>> THEN DeclaredPrefix(d) = "" /\ d.value = <<>>
        ELSE DeclsOf(ElementAt(tree, binders[1]).attrs, DeclaredPrefix(d))[1].value = d.value

\* C23: canonicalPrep drops a namespace declaration exactly when the nearest ancestor
\* inside the tree that declares the same prefix binds it to the same URI, or when the
\* declaration is xmlns="" and no ancestor declares a default namespace; a rebinding is
\* kept and counts for the descendants of its element only, a sibling or a later child
\* of the parent being compared with its own ancestors.
DeclarationDroppedWhenRepeated ==
    \A k \in 1..Len(last) :
       last[k].op = "canonicalPrep" =>
          \A e \in PrepPaths :
             LET given == ElementAt(last[k].el, e.at).attrs
                 kept  == ElementAt(last[k].res, e.at).attrs
             IN  /\ \A i \in 1..Len(given) :
                       IsNSDecl(given[i]) =>
                          ((\A j \in 1..Len(kept) : kept[j] # given[i])
                              <=> Superfluous(last[k].el, e.above, given[i]))
                 /\ \A j \in 1..Len(kept) : \E i \in 1..Len(given) : given[i] = kept[j]

\* Oib rebinds the prefix that Racun declares, BrRac below it repeats the binding of
\* Racun and ZastKod beside it repeats it too: the first two are kept, the third dropped;
\* BrRac declares xmlns="" under a default namespace, which is kept
RebindingKeptRepeatDropped ==
    /\ Len(last) = 1
    /\ last[1].op = "canonicalPrep"
    /\ DeclsOf(last[1].el.attrs, "tns") = <<Attr("xmlns", "tns", F73)>>
    /\ DeclsOf(last[1].el.attrs, "") = <<Attr("", "xmlns", F73)>>
    /\ DeclsOf(ElementAt(last[1].el, <<"Oib">>).attrs, "tns") = <<Attr("xmlns", "tns", Other)>>
    /\ ElementAt(last[1].el, <<"Oib", "BrRac">>).attrs
          = <<Attr("", "xmlns", <<>>), Attr("xmlns", "tns", F73)>>
    /\ ElementAt(last[1].el, <<"ZastKod">>).attrs = <<Attr("xmlns", "tns", F73)>>
    /\ DeclsOf(ElementAt(last[1].res, <<"Oib">>).attrs, "tns") = <<Attr("xmlns", "tns", Other)>>
    /\ ElementAt(last[1].res, <<"Oib", "BrRac">>).attrs
          = <<Attr("", "xmlns", <<>>), Attr("xmlns", "tns", F73)>>
    /\ ElementAt(last[1].res, <<"ZastKod">>).attrs = <<>>

(***************************************************************************)
(* The entity that InvoiceRequest signs and posts with                     *)
(***************************************************************************)
\* the calls of InvoiceRequest that posted a request
PostedRequests ==
    {k \in InvoiceRequests : last[k].res.comm # NoComm /\ last[k].res.comm.posted # <<>>}

\* the Signature of the serialized document xml was made by the entity fe: it embeds
\* the certificate of fe and its value is the signature of SignedInfo under the key of fe
SignedBy(fe, xml) ==
    LET signature  == LastChildOfRoot(xml)
        signedInfo == ElementAt(signature, <<"SignedInfo">>)
        hashed     == sha1Sum(Render(doc14n(WriteNodes(<<signedInfo>>, FALSE)).bytes))
    IN  /\ signature # NoElement
        /\ signedInfo # NoElement
        /\ TextOf(ElementAt(signature, <<"KeyInfo", "X509Data", "X509Certificate">>))
              = Base64Encode(fe.cert.publicCert.raw)
        /\ TextOf(ElementAt(signature, <<"SignatureValue">>))
              = Base64Encode(SignPKCS1v15(0, fe.cert.privateKey, hashed))

\* C24: every request that InvoiceRequest posts is signed with the private key of the
\* entity that issued the invoice and embeds its certificate, and goes to the URL and
\* under the trust pool of that entity; when oldEntityForOldZKI is set and holds another
\* key, the request is not signed by it.
RequestSentByIssuingEntity ==
    \A k \in PostedRequests :
       LET inv    == last[k].before
           posted == last[k].res.comm.posted
       IN  /\ Len(posted) = 1
           /\ posted[1].url = inv.pointerToEntity.url
           /\ posted[1].rootCAs = inv.pointerToEntity.ciscert.SSLverifyPoll
           /\ SignedBy(inv.pointerToEntity, posted[1].body)
           /\ (/\ inv.oldEntityForOldZKI # NoEntity
               /\ inv.oldEntityForOldZKI.cert.privateKey # inv.pointerToEntity.cert.privateKey)
                 => ~SignedBy(inv.oldEntityForOldZKI, posted[1].body)

\* an invoice whose ZKI was validated under the key of another bundle has been posted
PostedWithOldEntitySet ==
    \E k \in PostedRequests :
       /\ last[k].before.oldEntityForOldZKI # NoEntity
       /\ last[k].before.oldEntityForOldZKI.cert.privateKey
             # last[k].before.pointerToEntity.cert.privateKey
       /\ last[k].before.oldEntityForOldZKI.cert.publicCert
             # last[k].before.pointerToEntity.cert.publicCert
       /\ SignedBy(last[k].before.pointerToEntity, last[k].res.comm.posted[1].body)

(***************************************************************************)
(* The trust pool that parseAndVerifyEmbeddedCerts returns                 *)
(***************************************************************************)
\* the files of a directory whose leaf is the certificate that res names
SelectedBundles(files, res) ==
    {i \in 1..Len(files) :
        /\ ~files[i].isDir /\ files[i].matches
        /\ ParsePEM(files[i].blocks).err = Nil
        /\ files[i].blocks # <<>>
        /\ files[i].blocks[1].cert.serial = res.cert.Serial
        /\ files[i].blocks[1].cert.id = res.cert.PublicKey}

\* C25 as stated: the SSLverifyPoll of a successful call holds the root certificate of the
\* bundle whose leaf was selected, whatever other files are present and in whatever order.
PoolHoldsRootOfSelectedBundle ==
    \A k \in 1..Len(last) :
       last[k].res.outcome = "ok" =>
          \E i \in SelectedBundles(last[k].files, last[k].res) :
             last[k].res.cert.SSLverifyPoll.pool
                = last[k].files[i].blocks[Len(last[k].files[i].blocks)].cert.id

(***************************************************************************)
(* The string that GenerateZKI hashes, as a function of the invoice        *)
(***************************************************************************)
\* the invoice number, location ID, device ID and total amount of a call
ZKITuple(a) == <<a.invoiceNumber, a.ent.locationID, a.deviceID, a.totalAmount>>

\* C26 as stated: for one OIB and one timestamp, two successful calls with distinct
\* tuples (invoice number, location ID, device ID, total amount) never hash the same
\* string, nor return the same ZKI under the same key.
GuardCodeInjective ==
    \A i, j \in 1..Len(last) :
       LET a == last[i].args
           b == last[j].args
       IN  (/\ last[i].err = Nil /\ last[j].err = Nil
            /\ a.ent.oib = b.ent.oib
            /\ FormatTime(a.issueDateTime, <<" ">>) = FormatTime(b.issueDateTime, <<" ">>)
            /\ ZKITuple(a) # ZKITuple(b))
           => /\ GuardCodeOf(a) # GuardCodeOf(b)
              /\ SameKey(a, b) => last[i].zki # last[j].zki

(***************************************************************************)
(* The invoice after a late-delivery call that failed                      *)
(***************************************************************************)
\* C27 as stated: when SetLateDelivery or IhaveZKIwithExpiredCertificateEdgeCase returns
\* an error, ZastKod, NakDost and oldEntityForOldZKI of the invoice are as before the call.
InvoiceUnchangedOnError ==
    \A k \in 1..Len(last) :
       (/\ last[k].op \in {"SetLateDelivery", "IhaveZKIwithExpiredCertificateEdgeCase"}
        /\ last[k].res.err # Nil)
          => /\ last[k].res.invoice.ZastKod = last[k].before.ZastKod
             /\ last[k].res.invoice.NakDost = last[k].before.NakDost
             /\ last[k].res.invoice.oldEntityForOldZKI = last[k].before.oldEntityForOldZKI

(***************************************************************************)
(* InvoiceRequest after SetLateDelivery has accepted a ZKI                 *)
(***************************************************************************)
\* C28 as stated: when SetLateDelivery has just returned nil on the invoice, whatever
\* calls came before, an InvoiceRequest issued next on that invoice does not return
\* "ZKI is not valid".
AcceptedZKIPassesLocalCheck ==
    (/\ Len(last) = 1
     /\ last[1].op = "SetLateDelivery"
     /\ last[1].res.err = Nil)
       => \A random \in RandomStates, net \in InvoiceNetworks :
             InvoiceRequest(invoice, random, now, net).err # "ZKI is not valid"

(***************************************************************************)
(* InvoiceRequest on the bodies that GetResponse returns without error     *)
(***************************************************************************)
\* C29 as stated: InvoiceRequest never panics; for every body that GetResponse returns
\* without error, a RacunOdgovor without Zaglavlje or without Greske included, it returns
\* a valid JIR or an error.
InvoiceRequestAlwaysReturns ==
    \A k \in InvoiceRequests :
       (last[k].res.comm # NoComm /\ last[k].res.comm.err = Nil)
          => /\ ~last[k].res.panics
             /\ \/ last[k].res.err # Nil
                \/ ValidateJIR(last[k].res.jir)

(***************************************************************************)
(* SpecStored: an invoice made at some time and place, then sent           *)
(***************************************************************************)
\* invoice times: the wall clock of the value's own location, which is what Format
\* prints; with and without a sub-second part, at the ends of days, months and years
InvoiceTimes ==
    {T0, T0ns,
     Time(2024, 5, 17, 18, 0, 38, 999999999, "Europe/Zagreb"),
     Time(2024, 2, 29, 23, 59, 59, 1, "America/New_York"),
     Time(2024, 1, 1, 0, 0, 0, 0, "Europe/Zagreb"),
     Time(2025, 3, 30, 3, 0, 0, 500000000, "Europe/Zagreb"),
     Time(2023, 12, 31, 9, 5, 7, 123000000, "Asia/Tokyo")}

InitStored ==
    /\ entity \in IssuingEntities
    /\ invoice = NilInvoice
    /\ last = <<>>
    /\ saved = <<>>
    /\ certFS = <<>>
    /\ now = 50
    /\ manager = newCertManager
    /\ calls = 0

\* NewCISInvoice at one of the invoice times; the application keeps the invoice
CallNewCISInvoiceAt ==
    /\ invoice = NilInvoice
    /\ \E dateTime \in InvoiceTimes, invoiceNumber \in InvoiceNumbers,
          registerDeviceID \in DeviceIDs, iznosUkupno \in Amounts, random \in RandomStates :
          \E r \in {NewCISInvoice(entity, dateTime, invoiceNumber, registerDeviceID, NilRows,
                                  NilRows, NilRows, ZeroAmount, ZeroAmount, ZeroAmount, NilRows,
                                  iznosUkupno, "G", OIB2, random)} :
             /\ r.err = Nil
             /\ last' = <<[op |-> "NewCISInvoice", dateTime |-> dateTime,
                           invoiceNumber |-> invoiceNumber, registerDeviceID |-> registerDeviceID,
                           iznosUkupno |-> iznosUkupno, random |-> random,
                           before |-> invoice, res |-> r]>>
             /\ invoice' = r.invoice
    /\ calls' = calls + 1
    /\ UNCHANGED <<manager, entity, saved, certFS, now>>

\* InvoiceRequest on the invoice as NewCISInvoice returned it
CallInvoiceRequestOnStored ==
    /\ invoice # NilInvoice
    /\ Len(last) = 1
    /\ last[1].op = "NewCISInvoice"
    /\ \E random \in RandomStates, net \in InvoiceNetworks :
          last' = <<[op |-> "InvoiceRequest", random |-> random, net |-> net,
                     before |-> invoice, previous |-> last,
                     res |-> InvoiceRequest(invoice, random, now, net)]>>
    /\ calls' = calls + 1
    /\ UNCHANGED <<manager, entity, invoice, saved, certFS, now>>

NextStored == CallNewCISInvoiceAt \/ CallInvoiceRequestOnStored

SpecStored == InitStored /\ [][NextStored]_vars

====
